---- MODULE Spec2Model ----
(***************************************************************************)
(* Financial-Tools: the deterministic calculation engines of                *)
(* src/src/lib/mortgage-calculations.ts as state machines.                  *)
(*                                                                          *)
(* Amounts of money are exact rationals held as integers in units of        *)
(* 1/Scale dollar.  Periodic rates are n/RateDen with RateDen a power of    *)
(* two, and Scale is a multiple of RateDen^MaxRatedPeriods, so every        *)
(* product balance * rate of a run is a whole number of units: on these     *)
(* inputs the +, -, *, min and comparisons of the code's IEEE doubles are   *)
(* exact and the integer arithmetic below computes the same values.         *)
(***************************************************************************)
EXTENDS Integers, Sequences, FiniteSets, TLC

\* ---------------------------------------------------------------- bounds

\* Largest totalPayments (loanTerm * 12) drawn for a schedule.
MaxTerm == 13

\* Largest number of loop periods run with a non-zero periodic rate.
MaxRatedPeriods == 5

\* Largest number of scenarios in a points comparison.
MaxScenarios == 3

\* Largest term * 12 of a points comparison.
MaxPointsTerm == 2

\* Denominator of the periodic rates drawn: rates are 0, 1/4 and 1/2.
RateDen == 2 * 2

RECURSIVE Pow(_, _)
Pow(b, e) == IF e = 0 THEN 1 ELSE b * Pow(b, e - 1)

\* Units per dollar: 1/128 dollar resolves amounts around MINIMUM_BALANCE.
Scale == 128 * Pow(RateDen, MaxRatedPeriods)

Dollars(n) == n * Scale

Min(a, b) == IF a <= b THEN a ELSE b

Max(a, b) == IF a >= b THEN a ELSE b

\* ------------------------------------------------------------- constants

MAX_ITERATIONS == 10000

PMI_LTV_THRESHOLD == 78

\* MINIMUM_BALANCE = 0.01 dollar = 1 / MINIMUM_BALANCE_INV.
MINIMUM_BALANCE_INV == 100

\* x > MINIMUM_BALANCE, for x in units.
AboveMinimumBalance(x) == x * MINIMUM_BALANCE_INV > Scale

\* ------------------------------------------------------------ the state

VARIABLES
    args,               \* generateAmortizationSchedule's numeric parameters
    inputs,             \* its MortgageInputs record
    pc,                 \* "monthly" | "biweekly" | "done"
    exit,               \* why the loop ended: "" | "paid" | "ceiling" | "tooLow"
    month,              \* the monthly loop's counter
    paymentNumber,      \* the bi-weekly loop's counter
    remainingBalance,
    totalInterestPaid,
    schedule,           \* the ScheduleEntry[] built so far
    scenarios,          \* the PointsScenario[] of the points comparison
    pointsLoanAmount,   \* its loan amount, in dollars
    pointsTotalPayments, \* its term * 12
    pointsResults,      \* the ComparisonResult[] returned
    pointsPc,           \* "idle" | "call" | "returned" | "page"
    refiInputs,         \* the RefinanceInputs of calculateRefinanceAnalysis
    refiResult,         \* the RefinanceResult returned
    refiPc,             \* "idle" | "call" | "returned"
    recArgs,            \* the arguments of one generateRecommendation call
    recResult,          \* what it returns
    recPc,              \* "idle" | "call" | "returned"
    ptcInputs,          \* the PTCInputs of calculatePTC
    ptcResults,         \* the PTCResults returned
    ptcPc,              \* "idle" | "call" | "returned"
    figArgs,            \* the arguments of one getApplicableFigure call
    figResult,          \* what it returns
    figPc,              \* "idle" | "call" | "returned"
    benArgs,            \* the arguments of one calculateBenefit call
    benResult,          \* what it returns
    benPc,              \* "idle" | "call" | "returned"
    ssInputs,           \* the Inputs of calculateLifetimeBenefit
    ssPc,               \* "idle" | "call" | "loop" | "returned" | "threw"
    sim,                \* its constants: startSim, end and the base amounts
    current,            \* the month being simulated
    total,
    monthlyData,
    annualData,
    lastYear,
    yearlyPrimary,
    yearlySpouseOwn,
    yearlySpouseSpousal,
    lastMonth,          \* the parts of the last simulated month's amount
    stratInputs,        \* the Inputs of generateStrategies
    strategies,         \* what it returns
    stratPc,            \* "idle" | "call" | "returned" | "threw"
    survInputs,         \* the Inputs of calculateSurvivorBenefits
    survivorBenefits,   \* what it returns
    survPc,             \* "idle" | "call" | "returned" | "threw"
    singleInputs,       \* the Inputs of a calculateLifetimeBenefit call at any
                        \* inflation rate
    singleResult,       \* its total and monthly amounts, inflation kept apart
    singlePc            \* "idle" | "call" | "returned" | "threw"

amortVars == <<args, inputs, pc, exit, month, paymentNumber, remainingBalance,
               totalInterestPaid, schedule>>

pointsVars == <<scenarios, pointsLoanAmount, pointsTotalPayments, pointsResults,
                pointsPc>>

refiVars == <<refiInputs, refiResult, refiPc>>

recVars == <<recArgs, recResult, recPc>>

\* The variables of the engines other than the schedule and the points
\* comparison.
ptcVars == <<ptcInputs, ptcResults, ptcPc>>

figVars == <<figArgs, figResult, figPc>>

benVars == <<benArgs, benResult, benPc>>

lifeVars == <<ssInputs, ssPc, sim, current, total, monthlyData, annualData, lastYear,
              yearlyPrimary, yearlySpouseOwn, yearlySpouseSpousal, lastMonth>>

stratVars == <<stratInputs, strategies, stratPc>>

survVars == <<survInputs, survivorBenefits, survPc>>

singleVars == <<singleInputs, singleResult, singlePc>>

laterVars == <<refiVars, recVars, ptcVars, figVars, benVars, lifeVars, stratVars,
               survVars, singleVars>>

vars == <<amortVars, pointsVars, laterVars>>

\* ------------------------------------------------------- basic calculations

\* ltvRatio > PMI_LTV_THRESHOLD for ltvRatio = (loanAmount / homePrice) * 100;
\* 0 for an existing loan or a home price that is not positive.
InitialLTVAboveThreshold(in, loanAmount) ==
    /\ ~in.isExistingLoan
    /\ in.homePrice > 0
    /\ loanAmount * 100 > PMI_LTV_THRESHOLD * in.homePrice

calculateMonthlyPMI(in, loanAmount) ==
    IF in.isExistingLoan THEN in.pmiAmount
    ELSE IF InitialLTVAboveThreshold(in, loanAmount)
         THEN (loanAmount * in.pmiRate) \div 1200
         ELSE 0

calculateMonthlyEscrow(in) ==
    IF in.isExistingLoan THEN 0
    ELSE (in.propertyTax + in.homeInsurance) \div 12

\* ---------------------------------------------------- amortization schedule

\* remainingBalance * rate, the rate being rateNum / RateDen.
InterestOn(balance, rateNum) == (balance * rateNum) \div RateDen

\* PMI still charged at exactly the threshold.
CurrentLTVAtLeastThreshold(balance, homePrice) ==
    IF homePrice = 0 THEN balance > 0
    ELSE balance * 100 >= PMI_LTV_THRESHOLD * homePrice

\* (remainingBalance / homePrice) * 100 > PMI_LTV_THRESHOLD in doubles:
\* x / 0 is Infinity for x > 0 and NaN (never above) for x = 0.
CurrentLTVAboveThreshold(balance, homePrice) ==
    IF homePrice = 0 THEN balance > 0
    ELSE balance * 100 > PMI_LTV_THRESHOLD * homePrice

pmiPaymentFor(in, balance, monthlyPMI) ==
    IF in.isExistingLoan THEN 0
    ELSE IF CurrentLTVAboveThreshold(balance, in.homePrice) THEN monthlyPMI ELSE 0

\* One period too many.
maxMonthsNoCeiling == args.totalPayments + 1

maxMonths == Min(args.totalPayments, MAX_ITERATIONS)

extraPrincipalFor(principalPayment, m) ==
    args.extraMonthly
    + (IF args.doubleMonthly THEN principalPayment ELSE 0)
    + (IF m % 12 = 0 THEN args.extraAnnual ELSE 0)

\* The cap at the remaining balance left out.
totalPrincipalUncapped(principalPayment, extraPrincipal, balance) ==
    principalPayment + extraPrincipal

totalPrincipalFor(principalPayment, extraPrincipal, balance) ==
    Min(principalPayment + extraPrincipal, balance)

monthlyEntryPayment(extraPrincipal) == args.monthlyPI + extraPrincipal

\* The last period of the term left out.
MonthlyContinuesOffByOne ==
    month < maxMonths /\ AboveMinimumBalance(remainingBalance)

MonthlyContinues == month <= maxMonths /\ AboveMinimumBalance(remainingBalance)

\* A payment equal to the interest let through.
MonthlyTooLowStrict(principalPayment) == principalPayment < 0

MonthlyTooLow(principalPayment) == principalPayment <= 0

MonthlyStep ==
    /\ pc = "monthly"
    /\ MonthlyContinues
    /\ LET interestPayment == InterestOn(remainingBalance, args.monthlyRate)
           principalPayment == args.monthlyPI - interestPayment
           extraPrincipal == extraPrincipalFor(principalPayment, month)
           totalPrincipal ==
               totalPrincipalFor(principalPayment, extraPrincipal, remainingBalance)
           balance == remainingBalance - totalPrincipal
       IN  /\ ~MonthlyTooLow(principalPayment)
           /\ remainingBalance' = balance
           /\ totalInterestPaid' = totalInterestPaid + interestPayment
           /\ schedule' = Append(schedule,
                  [month |-> month,
                   payment |-> monthlyEntryPayment(extraPrincipal),
                   principal |-> totalPrincipal,
                   interest |-> interestPayment,
                   extraPrincipal |-> extraPrincipal,
                   balance |-> balance,
                   totalInterest |-> totalInterestPaid + interestPayment,
                   pmi |-> pmiPaymentFor(inputs, balance, args.monthlyPMI),
                   escrow |-> args.monthlyEscrow])
           /\ month' = month + 1
    /\ UNCHANGED <<args, inputs, pc, exit, paymentNumber, pointsVars, laterVars>>

MonthlyBreak ==
    /\ pc = "monthly"
    /\ MonthlyContinues
    /\ MonthlyTooLow(args.monthlyPI - InterestOn(remainingBalance, args.monthlyRate))
    /\ pc' = "done"
    /\ exit' = "tooLow"
    /\ UNCHANGED <<args, inputs, month, paymentNumber, remainingBalance,
                   totalInterestPaid, schedule, pointsVars, laterVars>>

MonthlyReturn ==
    /\ pc = "monthly"
    /\ ~MonthlyContinues
    /\ pc' = "done"
    /\ exit' = IF AboveMinimumBalance(remainingBalance) THEN "ceiling" ELSE "paid"
    /\ UNCHANGED <<args, inputs, month, paymentNumber, remainingBalance,
                   totalInterestPaid, schedule, pointsVars, laterVars>>

\* ------------------------------------------------------- bi-weekly schedule

biWeeklyPayment == args.monthlyPI \div 2

maxPayments == Min(args.totalPayments * 2, MAX_ITERATIONS)

BiWeeklyContinues ==
    AboveMinimumBalance(remainingBalance) /\ paymentNumber <= maxPayments

BiWeeklyTooLow(principalPayment) == principalPayment <= 0

biWeeklyEntryPrincipal(principalPayment) == principalPayment * 2

biWeeklyEntryInterest(interestPayment) == interestPayment * 2

BiWeeklyEmits(n) == n % 2 = 0

BiWeeklyStep ==
    /\ pc = "biweekly"
    /\ BiWeeklyContinues
    /\ LET interestPayment == InterestOn(remainingBalance, inputs.biWeeklyRate)
           uncapped == biWeeklyPayment - interestPayment
           principalPayment == Min(uncapped, remainingBalance)
           balance == remainingBalance - principalPayment
       IN  /\ ~BiWeeklyTooLow(uncapped)
           /\ remainingBalance' = balance
           /\ totalInterestPaid' = totalInterestPaid + interestPayment
           /\ schedule' =
                  IF BiWeeklyEmits(paymentNumber)
                  THEN Append(schedule,
                         [month |-> (paymentNumber + 1) \div 2,
                          payment |-> biWeeklyPayment * 2,
                          principal |-> biWeeklyEntryPrincipal(principalPayment),
                          interest |-> biWeeklyEntryInterest(interestPayment),
                          extraPrincipal |-> 0,
                          balance |-> balance,
                          totalInterest |-> totalInterestPaid + interestPayment,
                          pmi |-> pmiPaymentFor(inputs, balance, args.monthlyPMI),
                          escrow |-> args.monthlyEscrow])
                  ELSE schedule
           /\ paymentNumber' = paymentNumber + 1
    /\ UNCHANGED <<args, inputs, pc, exit, month, pointsVars, laterVars>>

BiWeeklyBreak ==
    /\ pc = "biweekly"
    /\ BiWeeklyContinues
    /\ BiWeeklyTooLow(biWeeklyPayment
                      - InterestOn(remainingBalance, inputs.biWeeklyRate))
    /\ pc' = "done"
    /\ exit' = "tooLow"
    /\ UNCHANGED <<args, inputs, month, paymentNumber, remainingBalance,
                   totalInterestPaid, schedule, pointsVars, laterVars>>

BiWeeklyReturn ==
    /\ pc = "biweekly"
    /\ ~BiWeeklyContinues
    /\ pc' = "done"
    /\ exit' = IF AboveMinimumBalance(remainingBalance) THEN "ceiling" ELSE "paid"
    /\ UNCHANGED <<args, inputs, month, paymentNumber, remainingBalance,
                   totalInterestPaid, schedule, pointsVars, laterVars>>

\* ------------------------------------------------------- points comparison
\* Amounts are exact rationals [num, den] in lowest terms, den > 0.  A
\* scenario's rate is its monthly rate's numerator over RateDen
\* (scenario.rate / 100 / 12 = rate / RateDen) and its points are held in
\* eighths of a percent (1.0 points = 8, 1.625 points = 13).

RECURSIVE GCD(_, _)
GCD(a, b) == IF b = 0 THEN a ELSE GCD(b, a % b)

Norm(n, d) ==
    LET g == GCD(IF n < 0 THEN -n ELSE n, d)
    IN  [num |-> n \div g, den |-> d \div g]

\* x - y and x + y over the least common denominator.
RSub(x, y) ==
    LET g == GCD(x.den, y.den)
    IN  Norm(x.num * (y.den \div g) - y.num * (x.den \div g), (x.den \div g) * y.den)

RAdd(x, y) ==
    LET g == GCD(x.den, y.den)
    IN  Norm(x.num * (y.den \div g) + y.num * (x.den \div g), (x.den \div g) * y.den)

\* x * y, cross-reduced before multiplying.
RMul(x, y) ==
    LET g1 == GCD(IF x.num < 0 THEN -x.num ELSE x.num, y.den)
        g2 == GCD(IF y.num < 0 THEN -y.num ELSE y.num, x.den)
    IN  Norm((x.num \div g1) * (y.num \div g2), (x.den \div g2) * (y.den \div g1))

\* x / y for y > 0.
RDiv(x, y) == RMul(x, [num |-> y.den, den |-> y.num])

NoBreakEven == [isNull |-> TRUE, num |-> 0, den |-> 1]

BreakEvenOf(x) == [isNull |-> FALSE, num |-> x.num, den |-> x.den]

\* loanAmount * (r * (1 + r)^n) / ((1 + r)^n - 1), or loanAmount / n at rate 0.
scenarioMonthlyPI(rate, loanAmount, totalPayments) ==
    IF rate = 0 THEN Norm(loanAmount, totalPayments)
    ELSE LET p == Pow(RateDen + rate, totalPayments)
             q == Pow(RateDen, totalPayments)
         IN  Norm(loanAmount * rate * p, RateDen * (p - q))

scenarioPointCost(points, loanAmount) == Norm(loanAmount * points, 800)

\* The fields of ComparisonResult that calculateBreakEven and its callers
\* read; totalInterest and the 5- and 10-year costs are not modelled.
calculateScenarioMetrics(scenario, loanAmount, totalPayments) ==
    LET monthlyPI == scenarioMonthlyPI(scenario.rate, loanAmount, totalPayments)
        pointCost == scenarioPointCost(scenario.points, loanAmount)
    IN  [scenario |-> scenario,
         monthlyPI |-> monthlyPI,
         pointCost |-> pointCost,
         totalCost |-> RAdd(pointCost, RMul(monthlyPI, Norm(totalPayments, 1))),
         breakEvenMonths |-> NoBreakEven,
         monthlySavings |-> Norm(0, 1)]

\* The point-cost test left out.
breakEvenAppliesOnSavingsAlone(monthlySavings, pointCostDiff) ==
    monthlySavings.num > 0

breakEvenApplies(monthlySavings, pointCostDiff) ==
    monthlySavings.num > 0 /\ pointCostDiff.num > 0

calculateBreakEven(result, baseline) ==
    LET pointCostDiff == RSub(result.pointCost, baseline.pointCost)
        monthlySavings == RSub(baseline.monthlyPI, result.monthlyPI)
    IN  [result EXCEPT
            !.monthlySavings = monthlySavings,
            !.breakEvenMonths =
                IF breakEvenApplies(monthlySavings, pointCostDiff)
                THEN BreakEvenOf(RDiv(pointCostDiff, monthlySavings))
                ELSE NoBreakEven]

\* scenarios.find(s => s.isBaseline): the index of the first baseline, 0 if none.
findBaseline(scs) ==
    IF \E i \in 1..Len(scs) : scs[i].isBaseline
    THEN CHOOSE i \in 1..Len(scs) :
             /\ scs[i].isBaseline
             /\ \A j \in 1..(i - 1) : ~scs[j].isBaseline
    ELSE 0

calculateComparisonResults(scs, loanAmount, totalPayments) ==
    LET b == findBaseline(scs)
    IN  IF b = 0 THEN <<>>
        ELSE LET baselineResult ==
                     calculateScenarioMetrics(scs[b], loanAmount, totalPayments)
             IN  [i \in 1..Len(scs) |->
                     LET result ==
                             calculateScenarioMetrics(scs[i], loanAmount, totalPayments)
                     IN  IF scs[i].isBaseline THEN result
                         ELSE calculateBreakEven(result, baselineResult)]

CalculateComparison ==
    /\ pointsPc = "call"
    /\ pointsResults' =
           calculateComparisonResults(scenarios, pointsLoanAmount, pointsTotalPayments)
    /\ pointsPc' = "returned"
    /\ UNCHANGED <<amortVars, scenarios, pointsLoanAmount, pointsTotalPayments,
                   laterVars>>

\* ------------------------------------------------------ refinance analysis
\* Amounts are exact rationals of a dollar; rates are the annual percentages
\* the code receives.  Math.log is taken in real arithmetic: the ceiling of
\* log(x) / log(b) is the least n with b^n >= x.

BREAK_EVEN_EXCELLENT == 24

BREAK_EVEN_GOOD == 60

BREAK_EVEN_MARGINAL == 120

TIME_HORIZON_5_YEARS == 60

TIME_HORIZON_10_YEARS == 120

RInt(n) == [num |-> n, den |-> 1]

RLess(x, y) == RSub(x, y).num < 0

RLeq(x, y) == RSub(x, y).num <= 0

\* Math.ceil of a rational.
RCeil(x) == -((-x.num) \div x.den)

\* annualRate / 100 / 12
monthlyRateOf(annualRate) == Norm(annualRate, 1200)

RECURSIVE RPow(_, _)
RPow(b, e) == IF e = 0 THEN RInt(1) ELSE RMul(b, RPow(b, e - 1))

\* Math.ceil(Math.log(x) / Math.log(b)) for x >= 1 and b > 1, counted from
\* n with p = b^n.
RECURSIVE CeilLogFrom(_, _, _, _)
CeilLogFrom(x, b, n, p) ==
    IF RLeq(x, p) THEN n ELSE CeilLogFrom(x, b, n + 1, RMul(p, b))

CeilLog(x, b) == CeilLogFrom(x, b, 0, RInt(1))

\* The interest left out of the closed form.
calculateRemainingMonthsNoInterest(balance, annualRate, monthlyPayment) ==
    RCeil(RDiv(balance, monthlyPayment))

calculateRemainingMonths(balance, annualRate, monthlyPayment) ==
    IF annualRate = 0 THEN RCeil(RDiv(balance, monthlyPayment))
    ELSE LET monthlyRate == monthlyRateOf(annualRate)
         IN  IF RLeq(monthlyPayment, RMul(balance, monthlyRate))
             THEN MAX_ITERATIONS
             ELSE CeilLog(RDiv(monthlyPayment,
                               RSub(monthlyPayment, RMul(balance, monthlyRate))),
                          RAdd(RInt(1), monthlyRate))

\* currentBalance > MINIMUM_BALANCE
RAboveMinimumBalance(x) == RLess(Norm(1, MINIMUM_BALANCE_INV), x)

\* The loop of calculateRefinanceTotalInterest from `month` on.
RECURSIVE RefinanceInterestFrom(_, _, _, _, _, _)
RefinanceInterestFrom(m, maxM, currentBalance, totalInterest, monthlyRate, monthlyPayment) ==
    IF ~(m <= maxM /\ RAboveMinimumBalance(currentBalance)) THEN totalInterest
    ELSE LET interestPayment == RMul(currentBalance, monthlyRate)
             principalPayment == RSub(monthlyPayment, interestPayment)
         IN  IF principalPayment.num <= 0 THEN totalInterest
             ELSE RefinanceInterestFrom(m + 1, maxM,
                                        RSub(currentBalance, principalPayment),
                                        RAdd(totalInterest, interestPayment),
                                        monthlyRate, monthlyPayment)

calculateRefinanceTotalInterest(balance, annualRate, monthlyPayment, months) ==
    RefinanceInterestFrom(1, Min(months, MAX_ITERATIONS), balance, RInt(0),
                          monthlyRateOf(annualRate), monthlyPayment)

calculateRefinanceCostAtMonths(loanAmount, monthlyRate, monthlyPayment, closingCosts, months) ==
    LET totalPayments == RCeil(RDiv(loanAmount, monthlyPayment))
        monthsToCalc == Min(Min(months, totalPayments), MAX_ITERATIONS)
    IN  RAdd(closingCosts, RMul(monthlyPayment, RInt(monthsToCalc)))

\* breakEvenMonths: a rational number of months, or Infinity.
Infinity == [inf |-> TRUE, num |-> 0, den |-> 1]

Finite(x) == [inf |-> FALSE, num |-> x.num, den |-> x.den]

\* breakEvenMonths < n
BreakEvenBelow(breakEvenMonths, n) ==
    ~breakEvenMonths.inf /\ breakEvenMonths.num < n * breakEvenMonths.den

\* monthlySavings > 0 ? totalClosingCosts / monthlySavings : Infinity
refinanceBreakEven(totalClosingCosts, monthlySavings) ==
    IF monthlySavings.num > 0 THEN Finite(RDiv(totalClosingCosts, monthlySavings))
    ELSE Infinity

newMonthlyPaymentOf(newLoanAmount, newMonthlyRate, newTotalPayments) ==
    IF newMonthlyRate.num = 0 THEN RDiv(newLoanAmount, RInt(newTotalPayments))
    ELSE LET p == RPow(RAdd(RInt(1), newMonthlyRate), newTotalPayments)
         IN  RDiv(RMul(newLoanAmount, RMul(newMonthlyRate, p)), RSub(p, RInt(1)))

\* termReductionMonths > 60 in place of >= 60.
significantTermReductionStrict(termReductionMonths) == termReductionMonths > 60

significantTermReduction(termReductionMonths) == termReductionMonths >= 60

moderateTermReduction(termReductionMonths) == termReductionMonths >= 24

\* The type and analysisType of the recommendation; its text is not modelled.
generateRecommendation(breakEvenMonths, monthlySavings, interestSavings, netSavings, newTermMonths, currentRemainingMonths) ==
    LET termReductionMonths == currentRemainingMonths - newTermMonths
        significantInterestSavings == RLeq(RInt(50000), interestSavings)
        moderateInterestSavings == RLeq(RInt(20000), interestSavings)
    IN  IF BreakEvenBelow(breakEvenMonths, BREAK_EVEN_EXCELLENT)
        THEN [type |-> "excellent", analysisType |-> "break-even"]
        ELSE IF significantTermReduction(termReductionMonths)
                /\ significantInterestSavings
        THEN [type |-> "excellent", analysisType |-> "time-savings"]
        ELSE IF significantTermReduction(termReductionMonths)
                /\ moderateInterestSavings
        THEN [type |-> "good", analysisType |-> "time-savings"]
        ELSE IF BreakEvenBelow(breakEvenMonths, BREAK_EVEN_GOOD)
                /\ monthlySavings.num > 0
        THEN [type |-> "good", analysisType |-> "break-even"]
        ELSE IF moderateTermReduction(termReductionMonths) /\ interestSavings.num > 0
        THEN [type |-> "marginal", analysisType |-> "time-savings"]
        ELSE IF BreakEvenBelow(breakEvenMonths, BREAK_EVEN_MARGINAL)
                /\ monthlySavings.num > 0
        THEN [type |-> "marginal", analysisType |-> "break-even"]
        ELSE [type |-> "not-recommended", analysisType |-> "break-even"]

calculateRefinanceAnalysis(refInputs) ==
    LET remainingMonths ==
            calculateRemainingMonths(refInputs.currentBalance, refInputs.currentRate,
                                     refInputs.currentMonthlyPayment)
        pointsCost == RMul(refInputs.currentBalance, Norm(refInputs.newPoints, 100))
        closingCostsInLoan ==
            IF refInputs.includeClosingCostsInLoan THEN refInputs.closingCosts
            ELSE RInt(0)
        newLoanAmount ==
            RAdd(RAdd(RAdd(refInputs.currentBalance, refInputs.cashOut), pointsCost),
                 closingCostsInLoan)
        totalClosingCosts == RAdd(refInputs.closingCosts, pointsCost)
        newMonthlyRate == monthlyRateOf(refInputs.newRate)
        newTotalPayments == refInputs.newTerm * 12
        newMonthlyPayment ==
            newMonthlyPaymentOf(newLoanAmount, newMonthlyRate, newTotalPayments)
        monthlySavings == RSub(refInputs.currentMonthlyPayment, newMonthlyPayment)
        breakEvenMonths == refinanceBreakEven(totalClosingCosts, monthlySavings)
        currentTotalInterest ==
            calculateRefinanceTotalInterest(refInputs.currentBalance,
                                            refInputs.currentRate,
                                            refInputs.currentMonthlyPayment,
                                            remainingMonths)
        newTotalInterest ==
            calculateRefinanceTotalInterest(newLoanAmount, refInputs.newRate,
                                            newMonthlyPayment, newTotalPayments)
        currentTotalCost ==
            RAdd(currentTotalInterest,
                 RMul(refInputs.currentMonthlyPayment, RInt(remainingMonths)))
        newTotalCost ==
            RAdd(RAdd(totalClosingCosts, newTotalInterest),
                 RMul(newMonthlyPayment, RInt(newTotalPayments)))
        interestSavings == RSub(currentTotalInterest, newTotalInterest)
        netSavings == RSub(currentTotalCost, newTotalCost)
        recommendationResult ==
            generateRecommendation(breakEvenMonths, monthlySavings, interestSavings,
                                   netSavings, refInputs.newTerm * 12, remainingMonths)
    IN  [newLoanAmount |-> newLoanAmount,
         newMonthlyPayment |-> newMonthlyPayment,
         monthlySavings |-> monthlySavings,
         totalClosingCosts |-> totalClosingCosts,
         breakEvenMonths |-> breakEvenMonths,
         currentTotalInterest |-> currentTotalInterest,
         newTotalInterest |-> newTotalInterest,
         interestSavings |-> interestSavings,
         currentTotalCost |-> currentTotalCost,
         newTotalCost |-> newTotalCost,
         netSavings |-> netSavings,
         costAt5Years |->
             calculateRefinanceCostAtMonths(newLoanAmount, newMonthlyRate,
                                            newMonthlyPayment, totalClosingCosts,
                                            TIME_HORIZON_5_YEARS),
         costAt10Years |->
             calculateRefinanceCostAtMonths(newLoanAmount, newMonthlyRate,
                                            newMonthlyPayment, totalClosingCosts,
                                            TIME_HORIZON_10_YEARS),
         costAtFullTerm |-> newTotalCost,
         recommendationType |-> recommendationResult.type,
         analysisType |-> recommendationResult.analysisType,
         remainingMonths |-> remainingMonths]

\* The useMemo of the refinance tab: one analysis of the form's values.
CalculateRefinance ==
    /\ refiPc = "call"
    /\ refiResult' = calculateRefinanceAnalysis(refiInputs)
    /\ refiPc' = "returned"
    /\ UNCHANGED <<amortVars, pointsVars, refiInputs, recVars, ptcVars, figVars,
                   benVars, lifeVars, stratVars, survVars,
                   singleVars>>

\* One call of generateRecommendation.
GenerateRecommendation ==
    /\ recPc = "call"
    /\ recResult' = generateRecommendation(recArgs.breakEvenMonths,
                                           recArgs.monthlySavings,
                                           recArgs.interestSavings,
                                           recArgs.netSavings,
                                           recArgs.newTermMonths,
                                           recArgs.currentRemainingMonths)
    /\ recPc' = "returned"
    /\ UNCHANGED <<amortVars, pointsVars, refiVars, recArgs, ptcVars, figVars,
                   benVars, lifeVars, stratVars, survVars,
                   singleVars>>

RefiIdle ==
    /\ refiInputs = <<>>
    /\ refiResult = <<>>
    /\ refiPc = "idle"

RecIdle ==
    /\ recArgs = <<>>
    /\ recResult = <<>>
    /\ recPc = "idle"

\* ------------------------------------------------------ premium tax credit
\* ptc-calculations.ts.  A number is a record [kind, num, den]: a finite
\* rational, Infinity, -Infinity or NaN, with the arithmetic of doubles on the
\* non-finite kinds.

XFin(x) == [kind |-> "finite", num |-> x.num, den |-> x.den]

XInfinity == [kind |-> "Infinity", num |-> 0, den |-> 1]

XNegInfinity == [kind |-> "-Infinity", num |-> 0, den |-> 1]

XNaN == [kind |-> "NaN", num |-> 0, den |-> 1]

isFinite(x) == x.kind = "finite"

XVal(x) == [num |-> x.num, den |-> x.den]

\* a - b
XSub(a, b) ==
    IF a.kind = "NaN" \/ b.kind = "NaN" THEN XNaN
    ELSE IF isFinite(a) /\ isFinite(b) THEN XFin(RSub(XVal(a), XVal(b)))
    ELSE IF a.kind = b.kind THEN XNaN
    ELSE IF a.kind = "Infinity" \/ b.kind = "-Infinity" THEN XInfinity
    ELSE XNegInfinity

\* a / n for a whole n > 0
XDivBy(a, n) == IF isFinite(a) THEN XFin(RDiv(XVal(a), RInt(n))) ELSE a

\* Math.max(0, a)
XMaxZero(a) ==
    IF a.kind = "NaN" THEN XNaN
    ELSE IF a.kind = "Infinity" THEN XInfinity
    ELSE IF a.kind = "-Infinity" \/ a.num < 0 THEN XFin(RInt(0))
    ELSE a

\* Math.round: the nearest whole number, halves upwards.
RRound(x) == (2 * x.num + x.den) \div (2 * x.den)

FPL_2023 ==
    [CONTIGUOUS_48 |->
         [table |-> <<14580, 19720, 24860, 30000, 35140, 40280, 45420, 50560>>,
          perAdditional |-> 5140],
     ALASKA |->
         [table |-> <<18210, 24640, 31070, 37500, 43930, 50360, 56790, 63220>>,
          perAdditional |-> 6430],
     HAWAII |->
         [table |-> <<16770, 22680, 28590, 34500, 40410, 46320, 52230, 58140>>,
          perAdditional |-> 5910]]

FPL_2024 ==
    [CONTIGUOUS_48 |->
         [table |-> <<15060, 20440, 25820, 31200, 36580, 41960, 47340, 52720>>,
          perAdditional |-> 5380],
     ALASKA |->
         [table |-> <<18810, 25550, 32290, 39030, 45770, 52510, 59250, 65990>>,
          perAdditional |-> 6740],
     HAWAII |->
         [table |-> <<17310, 23500, 29690, 35880, 42070, 48260, 54450, 60640>>,
          perAdditional |-> 6190]]

FPL_2025 ==
    [CONTIGUOUS_48 |->
         [table |-> <<15600, 21150, 26700, 32250, 37800, 43350, 48900, 54450>>,
          perAdditional |-> 5550],
     ALASKA |->
         [table |-> <<19500, 26430, 33360, 40290, 47220, 54150, 61080, 68010>>,
          perAdditional |-> 6930],
     HAWAII |->
         [table |-> <<17940, 24320, 30700, 37080, 43460, 49840, 56220, 62600>>,
          perAdditional |-> 6380]]

\* The tax years with a table of their own.
FPL_DATA_BY_TAX_YEAR ==
    [y \in {2024, 2025, 2026} |->
        IF y = 2024 THEN FPL_2023 ELSE IF y = 2025 THEN FPL_2024 ELSE FPL_2025]

FplLocations == {"CONTIGUOUS_48", "ALASKA", "HAWAII"}

\* The table of the tax year one later, where the code reads this year's.
getFPLOfNextYear(familySize, taxYear, location) ==
    LET yearData ==
            IF taxYear + 1 \in DOMAIN FPL_DATA_BY_TAX_YEAR
            THEN FPL_DATA_BY_TAX_YEAR[taxYear + 1][location]
            ELSE FPL_DATA_BY_TAX_YEAR[2026][location]
    IN  IF familySize <= 0 THEN 0
        ELSE IF familySize \in DOMAIN yearData.table THEN yearData.table[familySize]
        ELSE yearData.table[8] + (familySize - 8) * yearData.perAdditional

getFPL(familySize, taxYear, location) ==
    LET yearData ==
            IF taxYear \in DOMAIN FPL_DATA_BY_TAX_YEAR
            THEN FPL_DATA_BY_TAX_YEAR[taxYear][location]
            ELSE FPL_DATA_BY_TAX_YEAR[2026][location]
    IN  IF familySize <= 0 THEN 0
        ELSE IF familySize \in DOMAIN yearData.table THEN yearData.table[familySize]
        ELSE yearData.table[8] + (familySize - 8) * yearData.perAdditional

Tier(lo, hi, s, e) ==
    [fpl_min |-> RInt(lo), fpl_max |-> hi, start_percent |-> s, end_percent |-> e]

APPLICABLE_FIGURE_TABLE ==
    <<Tier(0, XFin(RInt(150)), RInt(0), RInt(0)),
      Tier(150, XFin(RInt(200)), RInt(0), RInt(2)),
      Tier(200, XFin(RInt(250)), RInt(2), RInt(4)),
      Tier(250, XFin(RInt(300)), RInt(4), RInt(6)),
      Tier(300, XFin(RInt(400)), RInt(6), Norm(85, 10)),
      Tier(400, XInfinity, Norm(85, 10), Norm(85, 10))>>

\* fplPercentage >= t.fpl_min && fplPercentage < t.fpl_max
TierHolds(t, fplPercentage) ==
    /\ RLeq(t.fpl_min, fplPercentage)
    /\ t.fpl_max.kind = "Infinity" \/ RLess(fplPercentage, XVal(t.fpl_max))

\* APPLICABLE_FIGURE_TABLE.find: the index of the first tier that holds, 0 if none.
findTier(fplPercentage) ==
    LET hits == {i \in DOMAIN APPLICABLE_FIGURE_TABLE :
                     TierHolds(APPLICABLE_FIGURE_TABLE[i], fplPercentage)}
    IN  IF hits = {} THEN 0 ELSE CHOOSE i \in hits : \A j \in hits : i <= j

\* The interpolation measured from the tier's fpl_max instead of its fpl_min.
interpolateFromMax(tier, fplPercentage) ==
    LET percentageInRange ==
            RDiv(RSub(XVal(tier.fpl_max), fplPercentage),
                 RSub(XVal(tier.fpl_max), tier.fpl_min))
    IN  RAdd(tier.start_percent,
             RMul(percentageInRange, RSub(tier.end_percent, tier.start_percent)))

interpolate(tier, fplPercentage) ==
    LET percentageInRange ==
            RDiv(RSub(fplPercentage, tier.fpl_min),
                 RSub(XVal(tier.fpl_max), tier.fpl_min))
    IN  RAdd(tier.start_percent,
             RMul(percentageInRange, RSub(tier.end_percent, tier.start_percent)))

getApplicableFigure(fplPercentage, useCliffLogic) ==
    IF fplPercentage.num < 0 THEN XFin(RInt(0))
    ELSE IF useCliffLogic /\ RLeq(RInt(400), fplPercentage) THEN XInfinity
    ELSE IF RLeq(RInt(400), fplPercentage) THEN XFin(Norm(85, 1000))
    ELSE LET i == findTier(fplPercentage)
         IN  IF i = 0 THEN XFin(Norm(85, 1000))
             ELSE LET tier == APPLICABLE_FIGURE_TABLE[i]
                  IN  IF tier.fpl_min.num = 0 THEN XFin(RInt(0))
                      ELSE XFin(RDiv(interpolate(tier, fplPercentage), RInt(100)))

defaultResult ==
    [fpl |-> XFin(RInt(0)),
     fplPercentage |-> XFin(RInt(0)),
     applicableFigure |-> XFin(RInt(0)),
     annualContribution |-> XFin(RInt(0)),
     monthlyContribution |-> XFin(RInt(0)),
     totalAllowedPTC |-> XFin(RInt(0)),
     monthlyPTC |-> XFin(RInt(0)),
     isEligible |-> FALSE,
     eligibilityMessage |-> "Unable to calculate"]

\* The toggle ignored.
useCliffLogicOff(in) == FALSE

useCliffLogicOf(in) == in.taxYear = 2026 /\ in.subsidyCliff

\* The contribution passed on unmasked.
maskedNever(x) == x

\* isFinite(x) ? x : 0
masked(x) == IF isFinite(x) THEN x ELSE XFin(RInt(0))

calculatePTC(in) ==
    IF in.familySize <= 0 \/ in.magi <= 0 \/ in.slcspMonthlyPremium <= 0
    THEN [defaultResult EXCEPT
              !.eligibilityMessage = "Please enter valid values for all fields"]
    ELSE
    LET fpl == getFPL(in.familySize, in.taxYear, in.location)
    IN  IF fpl <= 0
        THEN [defaultResult EXCEPT
                  !.eligibilityMessage = "Unable to determine Federal Poverty Level"]
        ELSE
        LET fplPercentage == RMul(Norm(in.magi, fpl), RInt(100))
            useCliffLogic == useCliffLogicOf(in)
            applicableFigure == getApplicableFigure(fplPercentage, useCliffLogic)
            annualContribution ==
                IF isFinite(applicableFigure)
                THEN XFin(RInt(RRound(RMul(RInt(in.magi), XVal(applicableFigure)))))
                ELSE XInfinity
            monthlyContribution == XDivBy(annualContribution, 12)
            annualSlcspPremium == XFin(RInt(in.slcspMonthlyPremium * 12))
            atCliff == useCliffLogic /\ RLeq(RInt(400), fplPercentage)
            totalAllowedPTC ==
                IF atCliff THEN XFin(RInt(0))
                ELSE XMaxZero(XSub(annualSlcspPremium, annualContribution))
            monthlyPTC == XDivBy(totalAllowedPTC, 12)
            belowMedicaid == RLess(fplPercentage, RInt(100))
        IN  [fpl |-> XFin(RInt(fpl)),
             fplPercentage |-> XFin(fplPercentage),
             applicableFigure |-> masked(applicableFigure),
             annualContribution |-> masked(annualContribution),
             monthlyContribution |-> masked(monthlyContribution),
             totalAllowedPTC |-> totalAllowedPTC,
             monthlyPTC |-> monthlyPTC,
             isEligible |-> ~belowMedicaid /\ ~atCliff,
             eligibilityMessage |->
                 IF belowMedicaid
                 THEN "Income below 100% FPL - you may qualify for Medicaid instead"
                 ELSE IF atCliff
                 THEN "Income exceeds 400% FPL - no subsidy available under cliff rules"
                 ELSE IF RLeq(RInt(400), fplPercentage)
                 THEN "Income above 400% FPL - subsidy capped at 8.5% of income"
                 ELSE IF isFinite(totalAllowedPTC) /\ totalAllowedPTC.num <= 0
                 THEN "Your expected contribution exceeds the benchmark premium"
                 ELSE "You may be eligible for the Premium Tax Credit"]

\* The effect of the PTC form: one calculation from the form's values.
CalculatePTC ==
    /\ ptcPc = "call"
    /\ ptcResults' = calculatePTC(ptcInputs)
    /\ ptcPc' = "returned"
    /\ UNCHANGED <<amortVars, pointsVars, refiVars, recVars, ptcInputs, figVars,
                   benVars, lifeVars, stratVars, survVars,
                   singleVars>>

\* One call of getApplicableFigure.
GetApplicableFigure ==
    /\ figPc = "call"
    /\ figResult' = getApplicableFigure(figArgs.fplPercentage, figArgs.useCliffLogic)
    /\ figPc' = "returned"
    /\ UNCHANGED <<amortVars, pointsVars, refiVars, recVars, ptcVars, figArgs,
                   benVars, lifeVars, stratVars, survVars,
                   singleVars>>

PtcIdle ==
    /\ ptcInputs = <<>>
    /\ ptcResults = <<>>
    /\ ptcPc = "idle"

FigIdle ==
    /\ figArgs = <<>>
    /\ figResult = <<>>
    /\ figPc = "idle"

\* --------------------------------------------------------- Social Security
\* ss-calculations.ts.  A Date is [ym, d]: ym counts months (year * 12 +
\* month, January = 0) and d is the day of the month; every Date is at local
\* midnight.  Benefits are exact rationals of a dollar.

MAX_AGE == 90

DateOf(year, monthOfYear, day) == [ym |-> year * 12 + (monthOfYear - 1), d |-> day]

getYear(date) == date.ym \div 12

IsLeapYear(y) == (y % 4 = 0 /\ y % 100 # 0) \/ y % 400 = 0

DaysInMonth(ym) ==
    LET m == ym % 12
    IN  IF m = 1 THEN (IF IsLeapYear(ym \div 12) THEN 29 ELSE 28)
        ELSE IF m \in {3, 5, 8, 10} THEN 30
        ELSE 31

\* date-fns addMonths: the same day of the target month, or its last day.
addMonths(date, n) == [ym |-> date.ym + n, d |-> Min(date.d, DaysInMonth(date.ym + n))]

startOfMonth(date) == [ym |-> date.ym, d |-> 1]

DateLess(a, b) == a.ym < b.ym \/ (a.ym = b.ym /\ a.d < b.d)

DateLeq(a, b) == ~DateLess(b, a)

\* date-fns differenceInMonths: the number of full months from dateRight to
\* dateLeft, negative when dateLeft is the earlier; a last month is not full
\* when the day of dateLeft falls short of the day of dateRight.  (The left
\* dates of this program are the 1st of a month and 31 December.)
differenceInMonths(dateLeft, dateRight) ==
    LET calendar == dateLeft.ym - dateRight.ym
    IN  IF calendar >= 1
        THEN calendar - (IF dateLeft.d < dateRight.d THEN 1 ELSE 0)
        ELSE IF calendar <= -1
        THEN calendar + (IF dateLeft.d > dateRight.d THEN 1 ELSE 0)
        ELSE 0

getFRA(birthDate) ==
    LET year == getYear(birthDate)
    IN  IF year <= 1937 THEN [age |-> 65, months |-> 0]
        ELSE IF year <= 1942 THEN [age |-> 65, months |-> 2 * (year - 1937)]
        ELSE IF year <= 1954 THEN [age |-> 66, months |-> 0]
        ELSE IF year = 1955 THEN [age |-> 66, months |-> 2]
        ELSE IF year = 1956 THEN [age |-> 66, months |-> 4]
        ELSE IF year = 1957 THEN [age |-> 66, months |-> 6]
        ELSE IF year = 1958 THEN [age |-> 66, months |-> 8]
        ELSE IF year = 1959 THEN [age |-> 66, months |-> 10]
        ELSE [age |-> 67, months |-> 0]

getFRADate(birthDate) ==
    LET fra == getFRA(birthDate)
    IN  addMonths(birthDate, fra.age * 12 + fra.months)

\* The cap at age 70 left out.
uncappedMonthsDiff(monthsDiff, monthsUntil70) == monthsDiff

\* if (monthsDiff > monthsUntil70) monthsDiff = monthsUntil70
cappedMonthsDiff(monthsDiff, monthsUntil70) ==
    IF monthsDiff > monthsUntil70 THEN monthsUntil70 ELSE monthsDiff

\* The first rate of 5/9 % a month kept beyond 36 months.
primaryReductionOneRate(monthsEarly) == Norm(monthsEarly * 5, 900)

\* The reduction of a primary benefit claimed monthsEarly months before FRA.
primaryReduction(monthsEarly) ==
    IF monthsEarly <= 36 THEN Norm(monthsEarly * 5, 900)
    ELSE RAdd(Norm(36 * 5, 900), Norm((monthsEarly - 36) * 5, 1200))

\* The reduction of a spousal benefit claimed monthsEarly months before FRA.
spousalReduction(monthsEarly) ==
    IF monthsEarly <= 36 THEN Norm(monthsEarly * 25, 3600)
    ELSE RAdd(Norm(36 * 25, 3600), Norm((monthsEarly - 36) * 5, 1200))

calculateBenefit(pia, birthDate, claimDate, type) ==
    LET fraDate == getFRADate(birthDate)
        age70Date == addMonths(birthDate, 70 * 12)
        monthsUntil70 ==
            differenceInMonths(startOfMonth(age70Date), startOfMonth(fraDate))
        monthsDiff ==
            cappedMonthsDiff(
                differenceInMonths(startOfMonth(claimDate), startOfMonth(fraDate)),
                monthsUntil70)
    IN  IF type = "primary"
        THEN IF monthsDiff >= 0
             THEN RMul(pia, RAdd(RInt(1), Norm(monthsDiff * 8, 1200)))
             ELSE RMul(pia, RSub(RInt(1), primaryReduction(-monthsDiff)))
        ELSE LET maxSpousal == RMul(pia, Norm(1, 2))
             IN  IF monthsDiff >= 0 THEN maxSpousal
                 ELSE RMul(maxSpousal, RSub(RInt(1), spousalReduction(-monthsDiff)))

\* One call of calculateBenefit.
CalculateBenefit ==
    /\ benPc = "call"
    /\ benResult' = calculateBenefit(benArgs.pia, benArgs.birthDate, benArgs.claimDate,
                                     benArgs.type)
    /\ benPc' = "returned"
    /\ UNCHANGED <<amortVars, pointsVars, refiVars, recVars, ptcVars, figVars,
                   benArgs, lifeVars, stratVars, survVars,
                   singleVars>>

BenIdle ==
    /\ benArgs = <<>>
    /\ benResult = <<>>
    /\ benPc = "idle"

\* inputs.spousalClaimDate when the caller leaves it out.
Undefined == [ym |-> -1, d |-> 0]

IsDate(date) == date.ym >= 0

\* inputs.spousalClaimDate || inputs.spouse.claimDate
spousalClaimDateOf(in) ==
    IF IsDate(in.spousalClaimDate) THEN in.spousalClaimDate ELSE in.spouse.claimDate

\* The spousal claim taken as made from the first month on.
spouseClaimedSpousalAlways(in, date) == TRUE

\* current >= startOfMonth(inputs.spousalClaimDate || inputs.spouse.claimDate)
spouseClaimedSpousal(in, date) ==
    DateLeq(startOfMonth(spousalClaimDateOf(in)), date)

\* Math.pow(1 + inflationRate / 100, yearsElapsed) at the rates drawn: 1 to
\* any power is 1.
inflationFactor(inflationRate, monthsElapsed) ==
    CASE inflationRate = 0 -> RInt(1)

\* The simulation ending at the 90th birthday of whoever claims first.
endSimOfEarlierClaimant(in) ==
    IF DateLess(in.spouse.claimDate, in.primary.claimDate)
    THEN addMonths(in.spouse.birthDate, MAX_AGE * 12)
    ELSE addMonths(in.primary.birthDate, MAX_AGE * 12)

endSimOf(in) == addMonths(in.primary.birthDate, MAX_AGE * 12)

\* inputs.spouse when the record holds one PersonInput only.
NoPerson == [birthDate |-> Undefined, pia |-> RInt(0), claimDate |-> Undefined]

HasSpouse(in) == in.spouse # NoPerson

\* What calculateLifetimeBenefit computes before its loop: the dates and the
\* base amounts.
simOf(in) ==
    LET earliestClaimDate ==
            IF HasSpouse(in) /\ DateLess(in.spouse.claimDate, in.primary.claimDate)
            THEN in.spouse.claimDate
            ELSE in.primary.claimDate
        startSim == startOfMonth(earliestClaimDate)
        maxSpousalBenefit == RMul(in.primary.pia, Norm(1, 2))
        spousalTopUpBase ==
            LET diff == RSub(maxSpousalBenefit, in.spouse.pia)
            IN  IF diff.num > 0 THEN diff ELSE RInt(0)
        spouseFraDate == getFRADate(in.spouse.birthDate)
        monthsBeforeFRA ==
            differenceInMonths(startOfMonth(spousalClaimDateOf(in)),
                               startOfMonth(spouseFraDate))
        spousalTopUpReductionFactor ==
            IF monthsBeforeFRA < 0
            THEN RSub(RInt(1), spousalReduction(-monthsBeforeFRA))
            ELSE RInt(1)
    IN  [startSim |-> startSim,
         end |-> startOfMonth(endSimOf(in)),
         primaryBase |->
             calculateBenefit(in.primary.pia, in.primary.birthDate,
                              in.primary.claimDate, "primary"),
         spouseOwnBase |->
             calculateBenefit(in.spouse.pia, in.spouse.birthDate,
                              in.spouse.claimDate, "primary"),
         spousalTopUpReduced |-> RMul(spousalTopUpBase, spousalTopUpReductionFactor)]

\* calculateLifetimeBenefit up to its loop.  Reading inputs.spouse.pia of a
\* record without a spouse throws a TypeError.
LifetimeEnter ==
    /\ ssPc = "call"
    /\ IF HasSpouse(ssInputs)
       THEN /\ sim' = simOf(ssInputs)
            /\ current' = simOf(ssInputs).startSim
            /\ ssPc' = "loop"
       ELSE /\ ssPc' = "threw"
            /\ UNCHANGED <<sim, current>>
    /\ UNCHANGED <<amortVars, pointsVars, refiVars, recVars, ptcVars, figVars,
                   benVars, ssInputs, total, monthlyData, annualData, lastYear,
                   yearlyPrimary, yearlySpouseOwn, yearlySpouseSpousal, lastMonth,
                   stratVars, survVars, singleVars>>

\* The entry with a total that leaves the spousal add-on out.
AnnualEntryWithoutAddOn ==
    LET yearDate == DateOf(lastYear, 12, 31)
    IN  [year |-> lastYear,
         primaryAge |->
             differenceInMonths(yearDate, ssInputs.primary.birthDate) \div 12,
         spouseAge |->
             differenceInMonths(yearDate, ssInputs.spouse.birthDate) \div 12,
         primaryBenefit |-> yearlyPrimary,
         spouseBenefit |-> yearlySpouseOwn,
         spousalAddOn |-> yearlySpouseSpousal,
         total |-> RAdd(yearlyPrimary, yearlySpouseOwn)]

\* new Date(lastYear, 11, 31) and the entry pushed for lastYear.
AnnualEntry ==
    LET yearDate == DateOf(lastYear, 12, 31)
    IN  [year |-> lastYear,
         primaryAge |->
             differenceInMonths(yearDate, ssInputs.primary.birthDate) \div 12,
         spouseAge |->
             differenceInMonths(yearDate, ssInputs.spouse.birthDate) \div 12,
         primaryBenefit |-> yearlyPrimary,
         spouseBenefit |-> yearlySpouseOwn,
         spousalAddOn |-> yearlySpouseSpousal,
         total |-> RAdd(RAdd(yearlyPrimary, yearlySpouseOwn), yearlySpouseSpousal)]

\* The amounts of the month `date` before inflation, and the months elapsed
\* since startSim that inflate them.
monthlyBases(in, s, date) ==
    LET isPrimaryAlive ==
            differenceInMonths(date, in.primary.birthDate) < MAX_AGE * 12
        isSpouseAlive ==
            differenceInMonths(date, in.spouse.birthDate) < MAX_AGE * 12
        primaryClaimed == DateLeq(startOfMonth(in.primary.claimDate), date)
        married == isSpouseAlive /\ in.maritalStatus = "Married"
    IN  [monthsElapsed |-> differenceInMonths(date, s.startSim),
         primary |->
             IF isPrimaryAlive /\ primaryClaimed THEN s.primaryBase ELSE RInt(0),
         spouseOwn |->
             IF married /\ DateLeq(startOfMonth(in.spouse.claimDate), date)
             THEN s.spouseOwnBase ELSE RInt(0),
         spouseSpousal |->
             IF married /\ primaryClaimed /\ spouseClaimedSpousal(in, date)
                /\ s.spousalTopUpReduced.num > 0
             THEN s.spousalTopUpReduced ELSE RInt(0)]

\* One iteration of while (current <= end).
LifetimeStep ==
    /\ ssPc = "loop"
    /\ DateLeq(current, sim.end)
    /\ LET in == ssInputs
           currentYear == getYear(current)
           bases == monthlyBases(in, sim, current)
           factor == inflationFactor(in.inflationRate, bases.monthsElapsed)
           monthlyPrimary == RMul(bases.primary, factor)
           monthlySpouseOwn == RMul(bases.spouseOwn, factor)
           monthlySpouseSpousal == RMul(bases.spouseSpousal, factor)
           monthlyTotal ==
               RAdd(monthlyPrimary, RAdd(monthlySpouseOwn, monthlySpouseSpousal))
           newYear == currentYear # lastYear /\ lastYear # -1
       IN  /\ total' = RAdd(total, monthlyTotal)
           /\ monthlyData' = Append(monthlyData,
                                    [date |-> current, amount |-> monthlyTotal,
                                     year |-> currentYear])
           /\ annualData' = IF newYear THEN Append(annualData, AnnualEntry)
                            ELSE annualData
           /\ yearlyPrimary' =
                  RAdd(IF newYear THEN RInt(0) ELSE yearlyPrimary, monthlyPrimary)
           /\ yearlySpouseOwn' =
                  RAdd(IF newYear THEN RInt(0) ELSE yearlySpouseOwn, monthlySpouseOwn)
           /\ yearlySpouseSpousal' =
                  RAdd(IF newYear THEN RInt(0) ELSE yearlySpouseSpousal,
                       monthlySpouseSpousal)
           /\ lastYear' = currentYear
           /\ lastMonth' = [date |-> current,
                            monthlyPrimary |-> monthlyPrimary,
                            monthlySpouseOwn |-> monthlySpouseOwn,
                            monthlySpouseSpousal |-> monthlySpouseSpousal]
    /\ current' = addMonths(current, 1)
    /\ UNCHANGED <<amortVars, pointsVars, refiVars, recVars, ptcVars, figVars,
                   benVars, ssInputs, ssPc, sim, stratVars, survVars, singleVars>>

\* The loop left: the final year added and the result returned.
LifetimeReturn ==
    /\ ssPc = "loop"
    /\ ~DateLeq(current, sim.end)
    /\ annualData' = IF lastYear # -1 THEN Append(annualData, AnnualEntry)
                     ELSE annualData
    /\ ssPc' = "returned"
    /\ UNCHANGED <<amortVars, pointsVars, refiVars, recVars, ptcVars, figVars,
                   benVars, ssInputs, sim, current, total, monthlyData, lastYear,
                   yearlyPrimary, yearlySpouseOwn, yearlySpouseSpousal, lastMonth,
                   stratVars, survVars, singleVars>>

\* No iteration made yet.
NoMonth == [date |-> Undefined, monthlyPrimary |-> RInt(0),
            monthlySpouseOwn |-> RInt(0), monthlySpouseSpousal |-> RInt(0)]

LifeIdle ==
    /\ ssInputs = <<>>
    /\ ssPc = "idle"
    /\ sim = <<>>
    /\ current = Undefined
    /\ total = RInt(0)
    /\ monthlyData = <<>>
    /\ annualData = <<>>
    /\ lastYear = -1
    /\ yearlyPrimary = RInt(0)
    /\ yearlySpouseOwn = RInt(0)
    /\ yearlySpouseSpousal = RInt(0)
    /\ lastMonth = NoMonth

\* ------------------------------------------------------ generateStrategies
\* The sum of the monthly totals of the months lo..hi, by halves.
RECURSIVE SumOfMonths(_, _, _, _)
SumOfMonths(in, s, lo, hi) ==
    IF lo > hi THEN RInt(0)
    ELSE IF lo = hi
    THEN LET bases == monthlyBases(in, s, [ym |-> lo, d |-> 1])
             factor == inflationFactor(in.inflationRate, bases.monthsElapsed)
         IN  RAdd(RMul(bases.primary, factor),
                  RAdd(RMul(bases.spouseOwn, factor), RMul(bases.spouseSpousal, factor)))
    ELSE LET mid == (lo + hi) \div 2
         IN  RAdd(SumOfMonths(in, s, lo, mid), SumOfMonths(in, s, mid + 1, hi))

\* calculateLifetimeBenefit(in).total: the monthly totals of every month from
\* startSim to end.
lifetimeTotal(in) ==
    LET s == simOf(in)
    IN  SumOfMonths(in, s, s.startSim.ym, s.end.ym)

\* The five scenarios of generateStrategies.
strategyScenarios(in) ==
    <<[name |-> "As Selected", primaryDate |-> in.primary.claimDate,
       spouseDate |-> in.spouse.claimDate],
      [name |-> "Both at 70", primaryDate |-> addMonths(in.primary.birthDate, 70 * 12),
       spouseDate |-> addMonths(in.spouse.birthDate, 70 * 12)],
      [name |-> "Both at FRA", primaryDate |-> getFRADate(in.primary.birthDate),
       spouseDate |-> getFRADate(in.spouse.birthDate)],
      [name |-> "Primary 70, Spouse FRA",
       primaryDate |-> addMonths(in.primary.birthDate, 70 * 12),
       spouseDate |-> getFRADate(in.spouse.birthDate)],
      [name |-> "Earliest (62)", primaryDate |-> addMonths(in.primary.birthDate, 62 * 12),
       spouseDate |-> addMonths(in.spouse.birthDate, 62 * 12)]>>

\* { ...inputs, primary: {...}, spouse: {...}, spousalClaimDate: s.spouseDate }
newInputsOf(in, s) ==
    [in EXCEPT !.primary.claimDate = s.primaryDate, !.spouse.claimDate = s.spouseDate,
               !.spousalClaimDate = s.spouseDate]

\* One entry put into a list already sorted, behind every entry whose
\* totalBenefit is not smaller.
RECURSIVE InsertByTotalBenefit(_, _)
InsertByTotalBenefit(sorted, e) ==
    IF sorted = <<>> THEN <<e>>
    ELSE IF RLess(Head(sorted).totalBenefit, e.totalBenefit) THEN <<e>> \o sorted
    ELSE <<Head(sorted)>> \o InsertByTotalBenefit(Tail(sorted), e)

\* The list left in the order of the scenarios.
unsortedByTotalBenefit(list) == list

\* .sort((a, b) => b.totalBenefit - a.totalBenefit): descending and stable.
RECURSIVE sortByTotalBenefit(_)
sortByTotalBenefit(list) ==
    IF list = <<>> THEN <<>>
    ELSE InsertByTotalBenefit(sortByTotalBenefit(SubSeq(list, 1, Len(list) - 1)),
                              list[Len(list)])

generateStrategies(in) ==
    LET list == strategyScenarios(in)
        mapped ==
            [i \in 1..Len(list) |->
                [name |-> list[i].name, primaryDate |-> list[i].primaryDate,
                 spouseDate |-> list[i].spouseDate,
                 totalBenefit |-> lifetimeTotal(newInputsOf(in, list[i]))]]
        sorted == sortByTotalBenefit(mapped)
    IN  SubSeq(sorted, 1, Min(5, Len(sorted)))

\* One call of generateStrategies.  Reading inputs.spouse.claimDate of a
\* record without a spouse throws a TypeError.
GenerateStrategies ==
    /\ stratPc = "call"
    /\ IF HasSpouse(stratInputs)
       THEN /\ strategies' = generateStrategies(stratInputs)
            /\ stratPc' = "returned"
       ELSE /\ stratPc' = "threw"
            /\ UNCHANGED strategies
    /\ UNCHANGED <<amortVars, pointsVars, refiVars, recVars, ptcVars, figVars,
                   benVars, lifeVars, stratInputs, survVars, singleVars>>

StratIdle ==
    /\ stratInputs = <<>>
    /\ strategies = <<>>
    /\ stratPc = "idle"

\* ------------------------------------------------ calculateSurvivorBenefits
RMax(x, y) == IF RLess(x, y) THEN y ELSE x

\* The record returned; its notes, which print the monthly amounts, are not
\* modelled.  primarySurvivorBenefitAmount and spouseSurvivorBenefitAmount are
\* computed and put in no field.
calculateSurvivorBenefits(in) ==
    LET primaryBenefitAtClaim ==
            calculateBenefit(in.primary.pia, in.primary.birthDate,
                             in.primary.claimDate, "primary")
        spouseBenefitAtClaim ==
            calculateBenefit(in.spouse.pia, in.spouse.birthDate,
                             in.spouse.claimDate, "primary")
        primarySurvivorTotal == RMax(primaryBenefitAtClaim, spouseBenefitAtClaim)
        spouseSurvivorTotal == RMax(spouseBenefitAtClaim, primaryBenefitAtClaim)
    IN  [primaryDies |->
             [spouseSurvival |-> RMul(spouseSurvivorTotal, RInt(12)),
              monthlyAmount |-> spouseSurvivorTotal,
              spouseFraDate |-> getFRADate(in.spouse.birthDate),
              spouseFraAge |-> getFRA(in.spouse.birthDate).age],
         spouseDies |->
             [primaryContinues |-> RMul(primarySurvivorTotal, RInt(12)),
              monthlyAmount |-> primarySurvivorTotal,
              primaryFraDate |-> getFRADate(in.primary.birthDate),
              primaryFraAge |-> getFRA(in.primary.birthDate).age]]

\* One call of calculateSurvivorBenefits.  Reading inputs.spouse.pia of a
\* record without a spouse throws a TypeError.
CalculateSurvivorBenefits ==
    /\ survPc = "call"
    /\ IF HasSpouse(survInputs)
       THEN /\ survivorBenefits' = calculateSurvivorBenefits(survInputs)
            /\ survPc' = "returned"
       ELSE /\ survPc' = "threw"
            /\ UNCHANGED survivorBenefits
    /\ UNCHANGED <<amortVars, pointsVars, refiVars, recVars, ptcVars, figVars,
                   benVars, lifeVars, stratVars, survInputs, singleVars>>

SurvIdle ==
    /\ survInputs = <<>>
    /\ survivorBenefits = <<>>
    /\ survPc = "idle"

\* ------------------------------ calculateLifetimeBenefit at any inflation rate
\* base * Math.pow(1 + inflationRate / 100, monthsElapsed / 12), the power
\* kept apart from the base.  At rate 0 the power is 1 and at base 0 the
\* product is 0 whatever the months; at a rate above 0 the power grows with
\* the months, so two amounts of one base are equal only at equal months.
Inflated(base, inflationRate, monthsElapsed) ==
    [base |-> base,
     monthsElapsed |-> IF inflationRate = 0 \/ base = RInt(0) THEN 0 ELSE monthsElapsed]

\* The months of the loop and, for each that pays, the amounts
\* calculateLifetimeBenefit adds: monthlyPrimary, and monthlyTotal, of which
\* total is the sum.
inflatedLifetime(in) ==
    LET s == simOf(in)
        months == s.startSim.ym .. s.end.ym
        basesOf(ym) == monthlyBases(in, s, [ym |-> ym, d |-> 1])
        elapsedOf(ym) == basesOf(ym).monthsElapsed
        totalBase(ym) ==
            RAdd(basesOf(ym).primary,
                 RAdd(basesOf(ym).spouseOwn, basesOf(ym).spouseSpousal))
    IN  [monthlyPrimary |->
             {[ym |-> ym,
               amount |-> Inflated(basesOf(ym).primary, in.inflationRate, elapsedOf(ym))] :
                  ym \in {m \in months : basesOf(m).primary # RInt(0)}},
         total |->
             {[ym |-> ym,
               amount |-> Inflated(totalBase(ym), in.inflationRate, elapsedOf(ym))] :
                  ym \in {m \in months : totalBase(m) # RInt(0)}}]

\* One call of calculateLifetimeBenefit, at any inflation rate.
CalculateInflatedLifetime ==
    /\ singlePc = "call"
    /\ IF HasSpouse(singleInputs)
       THEN /\ singleResult' = inflatedLifetime(singleInputs)
            /\ singlePc' = "returned"
       ELSE /\ singlePc' = "threw"
            /\ UNCHANGED singleResult
    /\ UNCHANGED <<amortVars, pointsVars, refiVars, recVars, ptcVars, figVars,
                   benVars, lifeVars, stratVars, survVars, singleInputs>>

SingleIdle ==
    /\ singleInputs = <<>>
    /\ singleResult = <<>>
    /\ singlePc = "idle"

\* Every engine after the points comparison at rest.
LaterIdle ==
    /\ RefiIdle /\ RecIdle /\ PtcIdle /\ FigIdle /\ BenIdle /\ LifeIdle
    /\ StratIdle /\ SurvIdle /\ SingleIdle

\* ------------------------------------------------------------------ inputs

\* 129/128 leaves 1/128 <= MINIMUM_BALANCE after one payment of 1; 87/16 leaves
\* 39/16 after one payment of 3, which is exactly 78% of a home price of 50/16.
LoanAmounts ==
    {0, Dollars(1) + Scale \div 128, Dollars(4), (87 * Scale) \div 16, Dollars(8),
     Dollars(13)}

Payments == {0, Dollars(1), Dollars(3), Dollars(5)}

RateNums == {0, 1, 2}

Terms == {0, 1, 2, 3, MaxRatedPeriods, MaxTerm}

ExtraMonthlies == {0, Dollars(1)}

ExtraAnnuals == {0, Dollars(2)}

HomePrices == {0, (50 * Scale) \div 16, Dollars(10)}

MortgageInputs ==
    [isExistingLoan : {FALSE}, homePrice : HomePrices, pmiRate : {75}, pmiAmount : {0},
     propertyTax : {Dollars(12)}, homeInsurance : {0}, biWeeklyRate : RateNums]
    \cup
    [isExistingLoan : {TRUE}, homePrice : {0}, pmiRate : {0},
     pmiAmount : {0, Dollars(1)},
     propertyTax : {0}, homeInsurance : {0}, biWeeklyRate : RateNums]

PointsIdle ==
    /\ scenarios = <<>>
    /\ pointsLoanAmount = 0
    /\ pointsTotalPayments = 0
    /\ pointsResults = <<>>
    /\ pointsPc = "idle"

Init ==
    /\ PointsIdle
    /\ LaterIdle
    /\ inputs \in MortgageInputs
    /\ \E loanAmount \in LoanAmounts, monthlyRate \in RateNums, monthlyPI \in Payments,
          totalPayments \in Terms, extraMonthly \in ExtraMonthlies,
          doubleMonthly \in BOOLEAN, extraAnnual \in ExtraAnnuals, biWeekly \in BOOLEAN :
          /\ (IF biWeekly THEN monthlyRate ELSE inputs.biWeeklyRate) = 0
          /\ (IF biWeekly THEN inputs.biWeeklyRate ELSE monthlyRate) > 0
                 => (IF biWeekly THEN 2 * totalPayments ELSE totalPayments)
                        <= MaxRatedPeriods
          /\ args = [loanAmount |-> loanAmount, monthlyRate |-> monthlyRate,
                     monthlyPI |-> monthlyPI, totalPayments |-> totalPayments,
                     monthlyEscrow |-> calculateMonthlyEscrow(inputs),
                     monthlyPMI |-> calculateMonthlyPMI(inputs, loanAmount),
                     extraMonthly |-> extraMonthly, doubleMonthly |-> doubleMonthly,
                     extraAnnual |-> extraAnnual, biWeekly |-> biWeekly]
          /\ remainingBalance = loanAmount
          /\ pc = IF biWeekly THEN "biweekly" ELSE "monthly"
    /\ exit = ""
    /\ month = 1
    /\ paymentNumber = 1
    /\ totalInterestPaid = 0
    /\ schedule = <<>>

Next ==
    \/ MonthlyStep
    \/ MonthlyBreak
    \/ MonthlyReturn
    \/ BiWeeklyStep
    \/ BiWeeklyBreak
    \/ BiWeeklyReturn

Spec == Init /\ [][Next]_vars

AmortIdle ==
    /\ args = <<>>
    /\ inputs = <<>>
    /\ pc = "done"
    /\ exit = ""
    /\ month = 1
    /\ paymentNumber = 1
    /\ remainingBalance = 0
    /\ totalInterestPaid = 0
    /\ schedule = <<>>

ScenarioRates == {0, 1, 2}

\* 0 and 1.0 points.
ScenarioPoints == {0, 8}

PointsLoanAmounts == {320}

Scenarios ==
    [id : 1..MaxScenarios, rate : ScenarioRates, points : ScenarioPoints,
     isBaseline : BOOLEAN]

\* Lists of up to MaxScenarios scenarios, the i-th with id i.
ScenarioLists ==
    UNION {{scs \in [1..n -> Scenarios] : \A i \in 1..n : scs[i].id = i} :
           n \in 0..MaxScenarios}

PointsInit ==
    /\ AmortIdle
    /\ LaterIdle
    /\ scenarios \in ScenarioLists
    /\ pointsLoanAmount \in PointsLoanAmounts
    /\ pointsTotalPayments \in 1..MaxPointsTerm
    /\ pointsResults = <<>>
    /\ pointsPc = "call"

PointsNext == CalculateComparison

SpecPoints == PointsInit /\ [][PointsNext]_vars

\* --------------------------------------- the scenario list of the points tab
\* defaultPointsScenarios.  Rates are in the units of the comparison above
\* and keep the order of the page's rates (5.625 > 5.5 > 5.375 > 5.25 become
\* 3 > 2 > 1 > 0); points are in eighths.
defaultPointsScenarios ==
    <<[id |-> 1, rate |-> 3, points |-> 0, isBaseline |-> TRUE],
      [id |-> 2, rate |-> 1, points |-> 8, isBaseline |-> FALSE],
      [id |-> 3, rate |-> 0, points |-> 13, isBaseline |-> FALSE]>>

\* Largest id String(Date.now()) is let to take: the clock only grows, and
\* an id is a number above every id of the list.
MaxScenarioId == 6

ScenarioIds == {scenarios[i].id : i \in 1..Len(scenarios)}

\* pointsResults as the next render recomputes it (useMemo).
Rendered(scs) == calculateComparisonResults(scs, pointsLoanAmount, pointsTotalPayments)

AddScenario ==
    /\ pointsPc = "page"
    /\ \E newId \in 1..MaxScenarioId :
           /\ \A id \in ScenarioIds : id < newId
           /\ scenarios' = Append(scenarios,
                                  [id |-> newId, rate |-> 2, points |-> 4,
                                   isBaseline |-> FALSE])
    /\ pointsResults' = Rendered(scenarios')
    /\ UNCHANGED <<amortVars, pointsLoanAmount, pointsTotalPayments, pointsPc,
                   laterVars>>

\* The page shows the button of every scenario while there is more than one.
RemoveScenario ==
    /\ pointsPc = "page"
    /\ \E id \in ScenarioIds :
           /\ Len(scenarios) > 1
           /\ scenarios' = SelectSeq(scenarios, LAMBDA s : s.id # id)
    /\ pointsResults' = Rendered(scenarios')
    /\ UNCHANGED <<amortVars, pointsLoanAmount, pointsTotalPayments, pointsPc,
                   laterVars>>

\* The page shows the button of every scenario that is not the baseline.
SetBaseline ==
    /\ pointsPc = "page"
    /\ \E i \in 1..Len(scenarios) :
           /\ ~scenarios[i].isBaseline
           /\ scenarios' = [j \in 1..Len(scenarios) |->
                               [scenarios[j] EXCEPT
                                   !.isBaseline = (scenarios[j].id = scenarios[i].id)]]
    /\ pointsResults' = Rendered(scenarios')
    /\ UNCHANGED <<amortVars, pointsLoanAmount, pointsTotalPayments, pointsPc,
                   laterVars>>

ScenInit ==
    /\ AmortIdle
    /\ LaterIdle
    /\ scenarios = defaultPointsScenarios
    /\ pointsLoanAmount \in PointsLoanAmounts
    /\ pointsTotalPayments \in 1..MaxPointsTerm
    /\ pointsResults = Rendered(scenarios)
    /\ pointsPc = "page"

ScenNext == AddScenario \/ RemoveScenario \/ SetBaseline

SpecScenarios == ScenInit /\ [][ScenNext]_vars

\* The schedule loop ends on every input: each iteration advances its counter.
SpecFair == Spec /\ WF_vars(Next)

\* ------------------------------------------------ refinance specifications

\* Inside the form's schema: balance and payment positive, the rest >= 0.
\* Rates of 300 and 600 percent a year are monthly rates of 1/4 and 1/2.
RefinanceInputs ==
    [currentBalance : {RInt(4), RInt(10), RInt(16)},
     currentRate : {0, 300, 600},
     currentMonthlyPayment : {RInt(1), RInt(2), RInt(3), RInt(5), RInt(9), RInt(20)},
     newRate : {0, 1200},
     newTerm : {1, 2},
     closingCosts : {RInt(0), RInt(2)},
     cashOut : {RInt(0), RInt(1)},
     newPoints : {0, 5},
     includeClosingCostsInLoan : BOOLEAN]

RefiInit ==
    /\ AmortIdle
    /\ PointsIdle
    /\ RecIdle
    /\ PtcIdle
    /\ FigIdle
    /\ BenIdle
    /\ LifeIdle
    /\ StratIdle
    /\ SurvIdle
    /\ SingleIdle
    /\ refiInputs \in RefinanceInputs
    \* (1 + r)^24 at a monthly rate of 1, and the difference of two interest
    \* totals at different rates, are beyond the integers at hand.
    /\ refiInputs.newRate > 0 => refiInputs.newTerm = 1 /\ refiInputs.currentRate = 0
    /\ refiResult = <<>>
    /\ refiPc = "call"

RefiNext == CalculateRefinance

SpecRefi == RefiInit /\ [][RefiNext]_vars

\* generateRecommendation on arguments as calculateRefinanceAnalysis passes
\* them: breakEvenMonths is computed from the closing costs and the savings.
RecommendationArgs ==
    {[breakEvenMonths |-> refinanceBreakEven(RInt(totalClosingCosts),
                                             RInt(monthlySavings)),
      monthlySavings |-> RInt(monthlySavings),
      interestSavings |-> RInt(interestSavings),
      netSavings |-> RInt(0),
      newTermMonths |-> 12,
      currentRemainingMonths |-> currentRemainingMonths] :
         totalClosingCosts \in {0, 23, 24, 59, 60, 119, 120},
         monthlySavings \in {-1, 0, 1, 2},
         interestSavings \in {-1, 0, 1, 19999, 20000, 49999, 50000},
         currentRemainingMonths \in {12, 35, 36, 71, 72, 73, MAX_ITERATIONS}}

RecInit ==
    /\ AmortIdle
    /\ PointsIdle
    /\ RefiIdle
    /\ PtcIdle
    /\ FigIdle
    /\ BenIdle
    /\ LifeIdle
    /\ StratIdle
    /\ SurvIdle
    /\ SingleIdle
    /\ recArgs \in RecommendationArgs
    /\ recResult = <<>>
    /\ recPc = "call"

RecNext == GenerateRecommendation

SpecRecommendation == RecInit /\ [][RecNext]_vars

\* ------------------------------------------------------ PTC specifications

\* Tax years with and without a table, family sizes around 0, in the table
\* and past it; incomes at exact multiples of a poverty level (31725 = 150%,
\* 84600 = 400% of 21150; 81760 = 400% of 20440) and between them.
PTCInputs ==
    [taxYear : {2024, 2025, 2026, 2027},
     familySize : {-1, 0, 1, 2, 8, 9},
     magi : {-1, 0, 20000, 31725, 60000, 81760, 84600, 100000},
     location : FplLocations,
     slcspMonthlyPremium : {0, 500, 1200},
     subsidyCliff : BOOLEAN]

PtcInit ==
    /\ AmortIdle
    /\ PointsIdle
    /\ RefiIdle
    /\ RecIdle
    /\ FigIdle
    /\ BenIdle
    /\ LifeIdle
    /\ StratIdle
    /\ SurvIdle
    /\ SingleIdle
    /\ ptcInputs \in PTCInputs
    /\ ptcResults = <<>>
    /\ ptcPc = "call"

PtcNext == CalculatePTC

SpecPTC == PtcInit /\ [][PtcNext]_vars

\* Largest income percentage drawn for getApplicableFigure, in halves of a
\* percent.
MaxHalfPercent == 900

\* Income percentages from -1/2 to MaxHalfPercent / 2 in steps of 1/2.
FigurePercentages == {Norm(k, 2) : k \in -1..MaxHalfPercent}

FigInit ==
    /\ AmortIdle
    /\ PointsIdle
    /\ RefiIdle
    /\ RecIdle
    /\ PtcIdle
    /\ BenIdle
    /\ LifeIdle
    /\ StratIdle
    /\ SurvIdle
    /\ SingleIdle
    /\ figArgs \in [fplPercentage : FigurePercentages, useCliffLogic : BOOLEAN]
    /\ figResult = <<>>
    /\ figPc = "call"

FigNext == GetApplicableFigure

SpecFigure == FigInit /\ [][FigNext]_vars

\* ------------------------------------------- calculateBenefit on its own
\* Birth dates on each row of the FRA table, on the last day of a month and
\* on 29 February, and the defaults of the form.
BirthDates ==
    {DateOf(1937, 6, 15), DateOf(1940, 1, 31), DateOf(1950, 12, 1),
     DateOf(1958, 1, 31), DateOf(1960, 2, 29), DateOf(1963, 12, 2),
     DateOf(1967, 6, 21)}

MaxClaimAge == 72

\* The form refuses a claim before age 62; claims are drawn month by month
\* up to MaxClaimAge, past the cap at 70.
ClaimOffsets == (62 * 12) .. (MaxClaimAge * 12)

BenefitArgs ==
    {[pia |-> RInt(p), birthDate |-> b, claimDate |-> [ym |-> b.ym + k, d |-> day],
      type |-> t] :
        p \in {1725, 3600}, b \in BirthDates, k \in ClaimOffsets, day \in {1, 28},
        t \in {"primary", "spouse"}}

BenInit ==
    /\ AmortIdle
    /\ PointsIdle
    /\ RefiIdle
    /\ RecIdle
    /\ PtcIdle
    /\ FigIdle
    /\ LifeIdle
    /\ StratIdle
    /\ SurvIdle
    /\ SingleIdle
    /\ benArgs \in BenefitArgs
    /\ benResult = <<>>
    /\ benPc = "call"

BenNext == CalculateBenefit

SpecBenefit == BenInit /\ [][BenNext]_vars

\* -------------------------------------- calculateLifetimeBenefit on its own
\* A claim at age 62 and one month on the 1st (the earliest month the form
\* accepts for a birthday after the 2nd; for one on the 1st, a month late),
\* as the form builds it, or a claim on the day the person reaches the given
\* months of age, as generateStrategies builds it.
ClaimDates(birthDate, months) ==
    {[ym |-> birthDate.ym + 62 * 12 + 1, d |-> 1], addMonths(birthDate, months)}

PersonInputs(birthDates, pias, months) ==
    UNION {{[birthDate |-> b, pia |-> RInt(p), claimDate |-> c] :
               p \in pias, c \in ClaimDates(b, months)} : b \in birthDates}

\* The primary claims at 62 or at 70.
PrimaryInputs ==
    PersonInputs({DateOf(1950, 12, 1), DateOf(1958, 1, 31), DateOf(1963, 12, 2)},
                 {3600}, 70 * 12)

\* The spouse claims at 62 or at 67; a PIA under and one over half the
\* primary's.
SpouseInputs ==
    PersonInputs({DateOf(1960, 2, 29), DateOf(1967, 6, 21)}, {720, 3000}, 67 * 12)

LaterOf(a, b) == IF DateLess(a, b) THEN b ELSE a

\* spousalClaimDate left out, the spouse's own claim date (generateStrategies)
\* or a date the form accepts (not before the primary's claim).
SpousalClaimDates(primary, spouse) ==
    {Undefined, spouse.claimDate, LaterOf(primary.claimDate, spouse.claimDate)}

\* Inflation rate 0 only: at any other rate the amounts are powers of
\* 1 + rate / 100 with fractional exponents.
LifetimeInputs ==
    UNION {UNION {{[maritalStatus |-> ms, primary |-> p, spouse |-> s,
                    spousalClaimDate |-> sc, inflationRate |-> 0] :
                       ms \in {"Single", "Married"},
                       sc \in SpousalClaimDates(p, s)} :
                  s \in SpouseInputs} : p \in PrimaryInputs}

\* A Single record holding the primary's PersonInput only.
LoneInputs ==
    {[maritalStatus |-> "Single", primary |-> p, spouse |-> NoPerson,
      spousalClaimDate |-> Undefined, inflationRate |-> 0] : p \in PrimaryInputs}

LifeInit ==
    /\ AmortIdle
    /\ PointsIdle
    /\ RefiIdle
    /\ RecIdle
    /\ PtcIdle
    /\ FigIdle
    /\ BenIdle
    /\ StratIdle
    /\ SurvIdle
    /\ SingleIdle
    /\ ssInputs \in LifetimeInputs \cup LoneInputs
    /\ ssPc = "call"
    /\ sim = <<>>
    /\ current = Undefined
    /\ total = RInt(0)
    /\ monthlyData = <<>>
    /\ annualData = <<>>
    /\ lastYear = -1
    /\ yearlyPrimary = RInt(0)
    /\ yearlySpouseOwn = RInt(0)
    /\ yearlySpouseSpousal = RInt(0)
    /\ lastMonth = NoMonth

LifeNext == LifetimeEnter \/ LifetimeStep \/ LifetimeReturn

SpecLifetime == LifeInit /\ [][LifeNext]_vars

\* ---------------------------------------------- generateStrategies on its own
StratInit ==
    /\ AmortIdle
    /\ PointsIdle
    /\ RefiIdle
    /\ RecIdle
    /\ PtcIdle
    /\ FigIdle
    /\ BenIdle
    /\ LifeIdle
    /\ SurvIdle
    /\ SingleIdle
    /\ stratInputs \in LifetimeInputs \cup LoneInputs
    /\ strategies = <<>>
    /\ stratPc = "call"

StratNext == GenerateStrategies

SpecStrategies == StratInit /\ [][StratNext]_vars

\* --------------------------------------- calculateSurvivorBenefits on its own
SurvInit ==
    /\ AmortIdle
    /\ PointsIdle
    /\ RefiIdle
    /\ RecIdle
    /\ PtcIdle
    /\ FigIdle
    /\ BenIdle
    /\ LifeIdle
    /\ StratIdle
    /\ SingleIdle
    /\ survInputs \in LifetimeInputs \cup LoneInputs
    /\ survivorBenefits = <<>>
    /\ survPc = "call"

SurvNext == CalculateSurvivorBenefits

SpecSurvivor == SurvInit /\ [][SurvNext]_vars

\* Inflation rates of the form: none, and 3 percent a year.
InflationRates == {0, 3}

\* Records of a Single claimant and of a couple, the spouse fields filled as
\* the form leaves them, at each inflation rate.
InflatedInputs ==
    {[in EXCEPT !.inflationRate = rate] : in \in LifetimeInputs, rate \in InflationRates}

SingleInit ==
    /\ AmortIdle
    /\ PointsIdle
    /\ RefiIdle
    /\ RecIdle
    /\ PtcIdle
    /\ FigIdle
    /\ BenIdle
    /\ LifeIdle
    /\ StratIdle
    /\ SurvIdle
    /\ singleInputs \in InflatedInputs
    /\ singleResult = <<>>
    /\ singlePc = "call"

SingleNext == CalculateInflatedLifetime

SpecSingle == SingleInit /\ [][SingleNext]_vars

\* No product or quotient of a run loses a fraction of a unit.
ExactArithmetic ==
    /\ (remainingBalance * args.monthlyRate) % RateDen = 0
    /\ (remainingBalance * inputs.biWeeklyRate) % RateDen = 0
    /\ args.monthlyPI % 2 = 0
    /\ (args.loanAmount * inputs.pmiRate) % 1200 = 0

\* ------------------------------------------------------- schedule properties

Done == pc = "done"

MonthlyMode == ~args.biWeekly

Entries == 1..Len(schedule)

\* balance_{i-1}: the loan amount before the first entry.
PrevBalance(i) == IF i = 1 THEN args.loanAmount ELSE schedule[i - 1].balance

PrevTotalInterest(i) == IF i = 1 THEN 0 ELSE schedule[i - 1].totalInterest

RECURSIVE SumPrincipal(_)
SumPrincipal(n) == IF n = 0 THEN 0 ELSE SumPrincipal(n - 1) + schedule[n].principal

Abs(x) == IF x < 0 THEN -x ELSE x

CeilDiv(a, b) == (a + b - 1) \div b

NoExtras == args.extraMonthly = 0 /\ ~args.doubleMonthly /\ args.extraAnnual = 0

C2_PaymentIsInterestPlusPrincipal ==
    MonthlyMode =>
        \A i \in Entries :
            /\ schedule[i].payment = schedule[i].interest + schedule[i].principal
            /\ schedule[i].payment <= PrevBalance(i) + schedule[i].interest

\* C3 as stated: when the loop ends with remaining balance <= MINIMUM_BALANCE,
\* the principal fields sum to the loan amount within 0.01 (monthly or
\* bi-weekly).
C3_PrincipalSumsToLoan ==
    (Done /\ exit = "paid") =>
        ~AboveMinimumBalance(Abs(SumPrincipal(Len(schedule)) - args.loanAmount))

\* C4 as stated: at rate 0 with a positive loan and payment and no extra
\* payments the monthly schedule has exactly ceil(loanAmount / payment) entries,
\* all with interest 0, the last with balance 0.
C4_ZeroRateCeil ==
    (Done /\ MonthlyMode /\ args.monthlyRate = 0 /\ args.loanAmount > 0
          /\ args.monthlyPI > 0 /\ NoExtras) =>
        /\ Len(schedule) = CeilDiv(args.loanAmount, args.monthlyPI)
        /\ \A i \in Entries : schedule[i].interest = 0
        /\ schedule[Len(schedule)].balance = 0

\* The term admits ceil(loanAmount / payment) payments and the balance owed
\* before the last of them is above MINIMUM_BALANCE.
C4_FullPayoff ==
    LET c == CeilDiv(args.loanAmount, args.monthlyPI)
    IN  /\ c <= Min(args.totalPayments, MAX_ITERATIONS)
        /\ AboveMinimumBalance(args.loanAmount - (c - 1) * args.monthlyPI)

\* C4 amended: at rate 0 with a positive loan and payment and no extra payments
\* every entry has interest exactly 0; the schedule has exactly
\* ceil(loanAmount / payment) entries and ends with balance 0 when
\* ceil(loanAmount / payment) <= min(totalPayments, 10000) and the balance owed
\* before the last of those payments exceeds 0.01; otherwise it has fewer
\* entries and, if not empty, ends with a positive balance.
C4_ZeroRateCeilWithinTerm ==
    (Done /\ MonthlyMode /\ args.monthlyRate = 0 /\ args.loanAmount > 0
          /\ args.monthlyPI > 0 /\ NoExtras) =>
        /\ \A i \in Entries : schedule[i].interest = 0
        /\ C4_FullPayoff =>
               /\ Len(schedule) = CeilDiv(args.loanAmount, args.monthlyPI)
               /\ schedule[Len(schedule)].balance = 0
        /\ ~C4_FullPayoff =>
               /\ Len(schedule) < CeilDiv(args.loanAmount, args.monthlyPI)
               /\ Len(schedule) > 0 => schedule[Len(schedule)].balance > 0

\* C4 witness: a finished zero-rate schedule of ceil(loanAmount / payment) >= 2
\* entries whose last payment is only partly needed.
C4_Witness ==
    /\ Done /\ MonthlyMode /\ args.monthlyRate = 0 /\ args.monthlyPI > 0 /\ NoExtras
    /\ C4_FullPayoff
    /\ Len(schedule) >= 2
    /\ args.loanAmount % args.monthlyPI # 0

\* C5: a period whose payment does not exceed its interest gets no entry, and
\* the schedule returned is the one accumulated before it, which is empty: with
\* a constant payment the first period is the only one that can fall short.
C5_TooLowStopsEmpty ==
    /\ \A i \in Entries :
           IF MonthlyMode THEN args.monthlyPI - schedule[i].interest > 0
           ELSE 2 * biWeeklyPayment - schedule[i].interest > 0
    /\ exit = "tooLow" =>
           /\ Done
           /\ schedule = <<>>
           /\ month = 1 /\ paymentNumber = 1
           /\ remainingBalance = args.loanAmount

\* C5 witness: the loop stopped on a positive payment that does not cover the
\* first period's interest.
C5_Witness ==
    /\ Done /\ exit = "tooLow"
    /\ args.monthlyPI > 0
    /\ args.monthlyRate > 0 \/ inputs.biWeeklyRate > 0

C7_PmiWhileAbove78 ==
    ~inputs.isExistingLoan =>
        /\ \A i \in Entries :
               schedule[i].pmi =
                   IF \/ inputs.homePrice > 0
                         /\ schedule[i].balance * 100 > 78 * inputs.homePrice
                      \/ inputs.homePrice = 0 /\ schedule[i].balance > 0
                   THEN args.monthlyPMI ELSE 0
        /\ \A i, j \in Entries :
               (i < j /\ schedule[i].pmi = 0) => schedule[j].pmi = 0

\* C7 witness: a new loan whose schedule charges PMI, then reaches exactly 78%
\* loan-to-value and charges none.
C7_Witness ==
    /\ ~inputs.isExistingLoan
    /\ \E i, j \in Entries :
           /\ i < j
           /\ schedule[i].pmi > 0
           /\ schedule[j].pmi = 0
    /\ \E i \in Entries :
           /\ inputs.homePrice > 0
           /\ schedule[i].balance * 100 = 78 * inputs.homePrice

\* C8 as stated: for an existing loan with pmiAmount > 0, calculateMonthlyPMI
\* returns pmiAmount and every schedule entry (monthly or bi-weekly) carries
\* pmi = pmiAmount.
C8_ExistingLoanFlatPmi ==
    (inputs.isExistingLoan /\ inputs.pmiAmount > 0) =>
        /\ calculateMonthlyPMI(inputs, args.loanAmount) = inputs.pmiAmount
        /\ \A i \in Entries : schedule[i].pmi = inputs.pmiAmount

\* C9 as stated: in bi-weekly mode there is one entry per two bi-weekly
\* periods, its principal is the balance decrease since the previous entry and
\* its interest the increase of cumulative totalInterest since the previous
\* entry.
C9_BiWeeklyEntriesCombine ==
    args.biWeekly =>
        /\ Len(schedule) = (paymentNumber - 1) \div 2
        /\ \A i \in Entries :
               /\ schedule[i].principal = PrevBalance(i) - schedule[i].balance
               /\ schedule[i].interest =
                      schedule[i].totalInterest - PrevTotalInterest(i)

\* ----------------------------------------------------- comparison properties

PointsReturned == pointsPc = "returned"

Results == 1..Len(pointsResults)

\* The result of the designated (first) baseline scenario.
BaselineResult == pointsResults[findBaseline(scenarios)]

SavingsOf(i) == RSub(BaselineResult.monthlyPI, pointsResults[i].monthlyPI)

PointCostDiffOf(i) == RSub(pointsResults[i].pointCost, BaselineResult.pointCost)

PointCostIsLoanTimesPoints(i) ==
    pointsResults[i].pointCost.num * 800
        = pointsLoanAmount * scenarios[i].points * pointsResults[i].pointCost.den

\* C10 as stated: breakEvenMonths is null exactly when the scenario is the
\* baseline or its monthly savings against the baseline are non-positive, and
\* is (pointCost - baseline pointCost) / monthlySavings for every other one.
C10_NullIffNoSavings ==
    PointsReturned =>
        \A i \in Results :
            /\ PointCostIsLoanTimesPoints(i)
            /\ pointsResults[i].breakEvenMonths.isNull
                   <=> (scenarios[i].isBaseline \/ SavingsOf(i).num <= 0)
            /\ ~pointsResults[i].breakEvenMonths.isNull =>
                   RMul([num |-> pointsResults[i].breakEvenMonths.num,
                         den |-> pointsResults[i].breakEvenMonths.den],
                        SavingsOf(i)) = PointCostDiffOf(i)

\* C10 amended: breakEvenMonths is null exactly when the scenario is a
\* baseline, or its monthly savings against the baseline are non-positive, or
\* its point cost does not exceed the baseline's; for every other scenario
\* (positive savings and positive point-cost difference) it is
\* (pointCost - baseline pointCost) / monthlySavings, with
\* pointCost = loanAmount * points / 100.
C10_NullIffNoSavingsOrNoCost ==
    PointsReturned =>
        \A i \in Results :
            /\ PointCostIsLoanTimesPoints(i)
            /\ pointsResults[i].breakEvenMonths.isNull
                   <=> \/ scenarios[i].isBaseline
                       \/ SavingsOf(i).num <= 0
                       \/ PointCostDiffOf(i).num <= 0
            /\ ~pointsResults[i].breakEvenMonths.isNull =>
                   /\ pointsResults[i].monthlySavings = SavingsOf(i)
                   /\ RMul([num |-> pointsResults[i].breakEvenMonths.num,
                            den |-> pointsResults[i].breakEvenMonths.den],
                           SavingsOf(i)) = PointCostDiffOf(i)

\* C10 witness: a comparison returning a finite break-even for one scenario
\* and null for another that saves nothing against the baseline.
C10_Witness ==
    /\ PointsReturned
    /\ \E i, j \in Results :
           /\ ~pointsResults[i].breakEvenMonths.isNull
           /\ pointsResults[i].breakEvenMonths.num > 0
           /\ ~scenarios[j].isBaseline
           /\ SavingsOf(j).num <= 0
           /\ pointsResults[j].breakEvenMonths.isNull

\* ------------------------------------------------------ refinance properties

RefiReturned == refiPc = "returned"

\* The first month's interest on the current loan.
FirstMonthInterest ==
    RMul(refiInputs.currentBalance, monthlyRateOf(refiInputs.currentRate))

PaymentExceedsFirstInterest ==
    RLess(FirstMonthInterest, refiInputs.currentMonthlyPayment)

\* The number of periods after which the recurrence
\* balance := balance - (payment - balance * rate) first has balance <= 0.
RECURSIVE PeriodsToZeroFrom(_, _, _, _)
PeriodsToZeroFrom(balance, monthlyRate, payment, n) ==
    IF balance.num <= 0 THEN n
    ELSE PeriodsToZeroFrom(RSub(balance, RSub(payment, RMul(balance, monthlyRate))),
                           monthlyRate, payment, n + 1)

PeriodsToZero ==
    PeriodsToZeroFrom(refiInputs.currentBalance,
                      monthlyRateOf(refiInputs.currentRate),
                      refiInputs.currentMonthlyPayment, 0)

\* n = ceil(balance / payment)
IsCeilOfBalanceOverPayment(n) ==
    /\ RLeq(refiInputs.currentBalance,
            RMul(RInt(n), refiInputs.currentMonthlyPayment))
    /\ RLess(RMul(RInt(n - 1), refiInputs.currentMonthlyPayment),
             refiInputs.currentBalance)

RecReturned == recPc = "returned"

TermReduction == recArgs.currentRemainingMonths - recArgs.newTermMonths

\* break-even months < n; Infinity is below nothing.
BreakEvenUnder(n) ==
    /\ ~recArgs.breakEvenMonths.inf
    /\ recArgs.breakEvenMonths.num < n * recArgs.breakEvenMonths.den

InterestSavingsAtLeast(n) == recArgs.interestSavings.num >= n * recArgs.interestSavings.den

\* The type by break-even alone.
TypeByBreakEven ==
    IF BreakEvenUnder(24) THEN "excellent"
    ELSE IF BreakEvenUnder(60) THEN "good"
    ELSE IF BreakEvenUnder(120) THEN "marginal"
    ELSE "not-recommended"

\* The table of thresholds with the two overrides at a term reduction of 60
\* months or more.
TypeByTable ==
    IF BreakEvenUnder(24) THEN "excellent"
    ELSE IF TermReduction >= 60 /\ InterestSavingsAtLeast(50000) THEN "excellent"
    ELSE IF TermReduction >= 60 /\ InterestSavingsAtLeast(20000) THEN "good"
    ELSE TypeByBreakEven

\* The same table with the third override: past a break-even of 60 months, a
\* term reduction of 24 months or more with positive interest savings is
\* marginal.
TypeByTableWithModerateOverride ==
    IF BreakEvenUnder(24) THEN "excellent"
    ELSE IF TermReduction >= 60 /\ InterestSavingsAtLeast(50000) THEN "excellent"
    ELSE IF TermReduction >= 60 /\ InterestSavingsAtLeast(20000) THEN "good"
    ELSE IF BreakEvenUnder(60) THEN "good"
    ELSE IF TermReduction >= 24 /\ recArgs.interestSavings.num > 0 THEN "marginal"
    ELSE TypeByBreakEven

SavingsDecideInfinity ==
    recArgs.monthlySavings.num <= 0 => recArgs.breakEvenMonths.inf

\* C12 as stated: the recommendation type is given by the table (break-even
\* < 24 excellent; else term reduction >= 60 with interest savings >= 50,000
\* excellent, >= 20,000 good; else break-even < 60 good, < 120 marginal, else
\* not-recommended); below a term reduction of 24 months it depends on
\* break-even alone; non-positive monthly savings give break-even Infinity.
C12_TypeByTable ==
    RecReturned =>
        /\ recResult.type = TypeByTable
        /\ TermReduction < 24 => recResult.type = TypeByBreakEven
        /\ SavingsDecideInfinity

\* C12 amended: the same, with the override the table leaves out: when none
\* of the earlier rows applies and break-even is not under 60, a term
\* reduction of 24 months or more with interest savings above 0 is marginal.
C12_TypeByTableWithModerateOverride ==
    RecReturned =>
        /\ recResult.type = TypeByTableWithModerateOverride
        /\ TermReduction < 24 => recResult.type = TypeByBreakEven
        /\ SavingsDecideInfinity

\* The override decides: break-even is Infinity, the term shrinks by 24
\* months with some interest saved, and the type is marginal.
C12_Witness ==
    /\ RecReturned
    /\ recArgs.breakEvenMonths.inf
    /\ TermReduction = 24
    /\ recArgs.interestSavings.num = 1
    /\ recResult.type = "marginal"
    /\ recResult.analysisType = "time-savings"

\* ------------------------------------------------------------ PTC properties

PtcReturned == ptcPc = "returned"

\* The spec's example household: two people, tax year 2025, contiguous 48
\* states, MAGI 60000, benchmark premium 1200.
ExampleHousehold ==
    /\ ptcInputs.familySize = 2
    /\ ptcInputs.taxYear = 2025
    /\ ptcInputs.location = "CONTIGUOUS_48"
    /\ ptcInputs.magi = 60000
    /\ ptcInputs.slcspMonthlyPremium = 1200

\* The reported income percentage lies in [250, 300).
InBand250To300 ==
    /\ RLeq(RInt(250), XVal(ptcResults.fplPercentage))
    /\ RLess(XVal(ptcResults.fplPercentage), RInt(300))

\* The example with a poverty level of fpl: getFPL returns it and the
\* percentage reported is 60000 / fpl * 100, inside the 250-300 band.
ExampleReports(fpl) ==
    /\ getFPL(ptcInputs.familySize, ptcInputs.taxYear, ptcInputs.location) = fpl
    /\ ptcResults.fpl = XFin(RInt(fpl))
    /\ ptcResults.fplPercentage = XFin(Norm(60000 * 100, fpl))
    /\ InBand250To300

\* C13 as stated: getFPL(2, 2025, CONTIGUOUS_48) is 21150 and calculatePTC
\* with MAGI 60000 reports fplPercentage = 60000 / 21150 * 100 (about 283.7),
\* in the 250-300% band.
C13_ExampleFplIs21150 ==
    (PtcReturned /\ ExampleHousehold) => ExampleReports(21150)

\* C13 amended: for tax year 2025 the poverty level of a family of two is
\* 20440 (the 2024 guideline) and the percentage reported is
\* 60000 / 20440 * 100 (about 293.5), still in the 250-300% band.
C13_ExampleFplIs20440 ==
    (PtcReturned /\ ExampleHousehold) => ExampleReports(20440)

C13_Witness ==
    /\ PtcReturned
    /\ ExampleHousehold
    /\ ptcResults.fpl = XFin(RInt(20440))
    /\ ptcResults.isEligible

FigReturned == figPc = "returned"

CliffOff == ~figArgs.useCliffLogic

\* The band boundaries and the percentage the claim gives at each, in tenths
\* of a percent.
BoundaryTenths == [b \in {150, 200, 250, 300, 400} |->
                      IF b = 150 THEN 0 ELSE IF b = 200 THEN 20
                      ELSE IF b = 250 THEN 40 ELSE IF b = 300 THEN 60 ELSE 85]

\* The figure as a fraction, for a percentage given in tenths.
FractionOfTenths(t) == Norm(t, 1000)

\* The limit of the figure as the income percentage rises to the boundary b:
\* the band ending at b is constant (the first) or linear, so the limit is
\* its formula at b.
LeftLimitAt(b) ==
    LET i == CHOOSE j \in DOMAIN APPLICABLE_FIGURE_TABLE :
                 APPLICABLE_FIGURE_TABLE[j].fpl_max = XFin(RInt(b))
        tier == APPLICABLE_FIGURE_TABLE[i]
    IN  IF i = 1 THEN RInt(0) ELSE RDiv(interpolate(tier, RInt(b)), RInt(100))

\* The figure with the cliff off at p, for p >= 0.
FigureAt(p) == XVal(getApplicableFigure(p, FALSE))

\* C14: with the cliff off, getApplicableFigure is exactly 0 on [0, 150), is
\* continuous at each band boundary (the value approached from below is the
\* value at 150, 200, 250, 300 and 400: 0%, 2%, 4%, 6%, 8.5%; half a percent
\* below a boundary the figure is within 0.02% of it), is 8.5% from 400 on,
\* and is non-decreasing in the income percentage.
C14_FigureContinuousMonotone ==
    (FigReturned /\ CliffOff /\ figArgs.fplPercentage.num >= 0) =>
        LET p == figArgs.fplPercentage
            f == XVal(figResult)
            below == RSub(p, Norm(1, 2))
        IN  /\ isFinite(figResult)
            /\ RLess(p, RInt(150)) => f = RInt(0)
            /\ RLeq(RInt(400), p) => f = FractionOfTenths(85)
            /\ \A b \in DOMAIN BoundaryTenths :
                   p = RInt(b) =>
                       /\ f = FractionOfTenths(BoundaryTenths[b])
                       /\ f = LeftLimitAt(b)
                       /\ RLeq(RSub(f, FigureAt(below)), Norm(2, 10000))
            /\ below.num >= 0 => RLeq(FigureAt(below), f)

\* At the 200% boundary the figure is 2%.
C14_Witness ==
    /\ FigReturned
    /\ CliffOff
    /\ figArgs.fplPercentage = RInt(200)
    /\ XVal(figResult) = Norm(2, 100)

\* Income at or above 400% of the poverty level, on a result that reports it.
IncomeAtLeast400 == RLeq(RInt(400), XVal(ptcResults.fplPercentage))

NoCredit ==
    /\ ptcResults.totalAllowedPTC = XFin(RInt(0))
    /\ ptcResults.monthlyPTC = XFin(RInt(0))

\* C15 as stated: with the subsidy-cliff toggle on and income at or above
\* 400% of FPL, totalAllowedPTC and monthlyPTC are 0, for any tax year, family
\* size, location and benchmark premium.
C15_CliffZeroesCreditAnyYear ==
    (PtcReturned /\ ptcInputs.subsidyCliff /\ IncomeAtLeast400) => NoCredit

\* C15 amended: the same for tax year 2026, the only year in which the toggle
\* is read.
C15_CliffZeroesCreditIn2026 ==
    (PtcReturned /\ ptcInputs.subsidyCliff /\ ptcInputs.taxYear = 2026
        /\ IncomeAtLeast400)
        => NoCredit

\* Tax year 2026, toggle on, income at exactly 400% with a premium that
\* 8.5% of income would not cover.
C15_Witness ==
    /\ PtcReturned
    /\ ptcInputs.subsidyCliff
    /\ ptcInputs.taxYear = 2026
    /\ ptcInputs.slcspMonthlyPremium = 1200
    /\ XVal(ptcResults.fplPercentage) = RInt(400)
    /\ NoCredit
    /\ ~ptcResults.isEligible

NumericFields ==
    {"fpl", "fplPercentage", "applicableFigure", "annualContribution",
     "monthlyContribution", "totalAllowedPTC", "monthlyPTC"}

DegenerateInput ==
    \/ ptcInputs.familySize <= 0
    \/ ptcInputs.magi <= 0
    \/ ptcInputs.slcspMonthlyPremium <= 0

\* C16: a family size, MAGI or benchmark premium <= 0 gives the explicit
\* invalid-input result (isEligible false, every numeric field 0), and on
\* every input, cliff on or off, no numeric field of the result is NaN or
\* an infinity.
C16_DegenerateInputsAndFiniteFields ==
    PtcReturned =>
        /\ DegenerateInput =>
               /\ ~ptcResults.isEligible
               /\ ptcResults.eligibilityMessage
                      = "Please enter valid values for all fields"
               /\ \A f \in NumericFields : ptcResults[f] = XFin(RInt(0))
        /\ \A f \in NumericFields : isFinite(ptcResults[f])

\* A family of none with an income and a premium.
C16_Witness ==
    /\ PtcReturned
    /\ ptcInputs.familySize = 0
    /\ ptcInputs.magi = 60000
    /\ ptcInputs.slcspMonthlyPremium = 1200
    /\ ~ptcResults.isEligible
    /\ \A f \in NumericFields : ptcResults[f] = XFin(RInt(0))

BenReturned == benPc = "returned"

\* Months from birth to Full Retirement Age.
FraMonths(birthDate) == getFRA(birthDate).age * 12 + getFRA(birthDate).months

\* Whole months from the FRA month to the claim month.
MonthsPastFra(call) == call.claimDate.ym - (call.birthDate.ym + FraMonths(call.birthDate))

\* Months from the FRA month to the month of the 70th birthday.
MonthsFraTo70(call) == 70 * 12 - FraMonths(call.birthDate)

PrimaryAtOrAfterFra(call) == call.type = "primary" /\ MonthsPastFra(call) >= 0

DelayedCredit(call) ==
    LET m == Min(MonthsPastFra(call), MonthsFraTo70(call))
    IN  RMul(call.pia, RAdd(RInt(1), Norm(m * 8, 1200)))

\* C17: a primary claimant claiming at or after FRA gets
\* PIA * (1 + m * (8/12)/100), m the whole months from the FRA month to the
\* claim month capped at the months from FRA to age 70; in the FRA month the
\* benefit is the PIA, and a claim after age 70 gets what a claim at age 70
\* gets.
C17_DelayedCreditCappedAt70 ==
    (BenReturned /\ PrimaryAtOrAfterFra(benArgs)) =>
        /\ benResult = DelayedCredit(benArgs)
        /\ MonthsPastFra(benArgs) = 0 => benResult = benArgs.pia
        /\ MonthsPastFra(benArgs) > MonthsFraTo70(benArgs) =>
               benResult = calculateBenefit(benArgs.pia, benArgs.birthDate,
                                            addMonths(benArgs.birthDate, 70 * 12),
                                            "primary")

\* A claim made after age 70 that has returned, and its credit above the PIA.
C17_Witness ==
    /\ BenReturned
    /\ PrimaryAtOrAfterFra(benArgs)
    /\ MonthsPastFra(benArgs) > MonthsFraTo70(benArgs)
    /\ RLess(benArgs.pia, benResult)


MonthsEarly(call) == -MonthsPastFra(call)

PrimaryBeforeFra(call) == call.type = "primary" /\ MonthsEarly(call) > 0

\* The reduction table of the claim: percent of the PIA, k months early.
ReductionPercent(k) ==
    IF k <= 36 THEN Norm(k * 5, 9)
    ELSE RAdd(Norm(36 * 5, 9), Norm((k - 36) * 5, 12))

\* 1 - result / PIA, in percent.
ReductionTaken(call, result) ==
    RMul(RSub(RInt(1), RDiv(result, call.pia)), RInt(100))

\* C18: a primary claimant claiming k months before FRA loses k * 5/9 % of
\* the PIA when k <= 36 and 36 * 5/9 % + (k - 36) * 5/12 % when k > 36: 20 %
\* at 36 months, 25 % at 48 months, and never less for one month more.
C18_EarlyReduction ==
    (BenReturned /\ PrimaryBeforeFra(benArgs)) =>
        LET k == MonthsEarly(benArgs)
            oneMonthLater ==
                calculateBenefit(benArgs.pia, benArgs.birthDate,
                                 addMonths(benArgs.claimDate, 1), "primary")
        IN  /\ ReductionTaken(benArgs, benResult) = ReductionPercent(k)
            /\ k = 36 => benResult = RMul(benArgs.pia, Norm(80, 100))
            /\ k = 48 => benResult = RMul(benArgs.pia, Norm(75, 100))
            /\ RLeq(benResult, oneMonthLater)

\* A claim 48 months early that has returned three quarters of the PIA.
C18_Witness ==
    /\ BenReturned
    /\ PrimaryBeforeFra(benArgs)
    /\ MonthsEarly(benArgs) = 48
    /\ benResult = RMul(benArgs.pia, Norm(3, 4))

LifeReturned == ssPc = "returned"

\* A month has been simulated: lastMonth holds its parts.
MonthSimulated == IsDate(lastMonth.date)

\* The month of the spousal-benefit claim: spousalClaimDate, or the spouse's
\* own claim date when absent.
SpousalClaimMonth ==
    IF ssInputs.spousalClaimDate = Undefined THEN ssInputs.spouse.claimDate.ym
    ELSE ssInputs.spousalClaimDate.ym

TopUpPaid == lastMonth.monthlySpouseSpousal # RInt(0)

\* C19: in every simulated month the spousal top-up is non-zero only if the
\* marital status is Married and the month is at or after both the primary's
\* claim month and the spousal-benefit claim month; before either it is 0.
C19_TopUpOnlyAfterBothClaims ==
    MonthSimulated =>
        /\ TopUpPaid =>
               /\ ssInputs.maritalStatus = "Married"
               /\ lastMonth.date.ym >= ssInputs.primary.claimDate.ym
               /\ lastMonth.date.ym >= SpousalClaimMonth
        /\ (\/ lastMonth.date.ym < ssInputs.primary.claimDate.ym
            \/ lastMonth.date.ym < SpousalClaimMonth) =>
               lastMonth.monthlySpouseSpousal = RInt(0)

\* A top-up paid in a month after both claims, the spousal claim being the
\* spouse's own for want of a spousalClaimDate and earlier than the
\* primary's.
C19_Witness ==
    /\ MonthSimulated
    /\ TopUpPaid
    /\ ssInputs.spousalClaimDate = Undefined
    /\ SpousalClaimMonth < ssInputs.primary.claimDate.ym
    /\ lastMonth.date.ym > ssInputs.primary.claimDate.ym

\* The claim dates of the two claimants, and who claims first.
SpouseClaimsEarlier == DateLess(ssInputs.spouse.claimDate, ssInputs.primary.claimDate)

EarlierClaimMonth ==
    IF SpouseClaimsEarlier THEN ssInputs.spouse.claimDate.ym
    ELSE ssInputs.primary.claimDate.ym

\* The month of a person's 90th birthday.
Age90Month(person) == person.birthDate.ym + 90 * 12

\* The sum of the amounts of data[lo..hi], by halves.
RECURSIVE SumOfAmounts(_, _, _)
SumOfAmounts(data, lo, hi) ==
    IF lo > hi THEN RInt(0)
    ELSE IF lo = hi THEN data[lo].amount
    ELSE LET mid == (lo + hi) \div 2
         IN  RAdd(SumOfAmounts(data, lo, mid), SumOfAmounts(data, mid + 1, hi))

\* One entry for each calendar month from firstMonth to finalMonth, in order,
\* and the total made of their amounts alone.
MonthlyDataCovers(firstMonth, finalMonth) ==
    /\ Len(monthlyData) = finalMonth - firstMonth + 1
    /\ \A i \in 1..Len(monthlyData) :
           /\ monthlyData[i].date = [ym |-> firstMonth + i - 1, d |-> 1]
           /\ monthlyData[i].year = (firstMonth + i - 1) \div 12
    /\ total = SumOfAmounts(monthlyData, 1, Len(monthlyData))

\* C20 as stated: one monthlyData entry per consecutive calendar month, from
\* the month of the earlier claim date to the month of the age-90 anniversary
\* of the claimant who claims earlier, and nothing else in the total.
C20_MonthsToEarlierClaimantsAge90 ==
    LifeReturned =>
        MonthlyDataCovers(EarlierClaimMonth,
                          IF SpouseClaimsEarlier THEN Age90Month(ssInputs.spouse)
                          ELSE Age90Month(ssInputs.primary))

\* C20 amended: one monthlyData entry per consecutive calendar month, from
\* the month of the earlier claim date to the month of the age-90 anniversary
\* of the primary claimant, and nothing else in the total.
C20_MonthsToPrimarysAge90 ==
    LifeReturned => MonthlyDataCovers(EarlierClaimMonth, Age90Month(ssInputs.primary))

\* A simulation returned for a spouse who claimed first and reaches 90 in
\* another month than the primary, with benefits paid.
C20_Witness ==
    /\ LifeReturned
    /\ SpouseClaimsEarlier
    /\ Age90Month(ssInputs.spouse) # Age90Month(ssInputs.primary)
    /\ Len(monthlyData) > 12
    /\ total.num > 0

\* ------------------------------------------------------ strategy properties
StratReturned == stratPc = "returned"

ArchetypeNames ==
    {"As Selected", "Both at 70", "Both at FRA", "Primary 70, Spouse FRA",
     "Earliest (62)"}

\* The entry of the archetype called name.
StrategyNamed(name) ==
    CHOOSE e \in {strategies[i] : i \in 1..Len(strategies)} : e.name = name

C22_AsSelectedIsCallersTotal ==
    StratReturned =>
        StrategyNamed("As Selected").totalBenefit = lifetimeTotal(stratInputs)

\* primaryMinDate / spouseMinDate of the form: the month of the 62nd
\* birthday for a birthday on the 1st or 2nd, the month after it otherwise.
earliestEligibleDate(birthDate) ==
    LET minDate == startOfMonth(addMonths(birthDate, 62 * 12))
    IN  IF birthDate.d > 2 THEN addMonths(minDate, 1) ELSE minDate

Eligible(person) == DateLeq(earliestEligibleDate(person.birthDate), person.claimDate)

\* C25: when the caller's claim dates are at or after each person's earliest
\* eligible date, so is every claim date generateStrategies feeds into the
\* simulation, for either person and every archetype.
C25_StrategiesClaimWhenEligible ==
    (StratReturned /\ Eligible(stratInputs.primary) /\ Eligible(stratInputs.spouse)) =>
        \A i \in 1..Len(strategies) :
            /\ DateLeq(earliestEligibleDate(stratInputs.primary.birthDate),
                       strategies[i].primaryDate)
            /\ DateLeq(earliestEligibleDate(stratInputs.spouse.birthDate),
                       strategies[i].spouseDate)

\* ------------------------------------------------------ survivor properties
SurvReturned == survPc = "returned"

OwnBenefit(person) ==
    calculateBenefit(person.pia, person.birthDate, person.claimDate, "primary")

\* The amounts of one death direction: the survivor's monthly amount is the
\* larger of the two benefits, the annual amount 12 times it.
DirectionPaysMax(monthly, annual) ==
    /\ monthly = RMax(OwnBenefit(survInputs.primary), OwnBenefit(survInputs.spouse))
    /\ annual = RMul(monthly, RInt(12))

\* The excess of the survivor's amount over the survivor's own benefit.
Excess(monthly, survivor) ==
    LET diff == RSub(monthly, OwnBenefit(survivor))
    IN  IF diff.num > 0 THEN diff ELSE RInt(0)

\* C23: for each death direction the survivor's monthly amount is
\* max(survivor's own benefit, deceased's benefit), the annual amount is 12
\* times it, and the output carries the excess of the monthly amount over
\* the survivor's own benefit.
C23_SurvivorGetsMaxAndExcess ==
    SurvReturned =>
        LET pd == survivorBenefits.primaryDies
            sd == survivorBenefits.spouseDies
        IN  /\ DirectionPaysMax(pd.monthlyAmount, pd.spouseSurvival)
            /\ DirectionPaysMax(sd.monthlyAmount, sd.primaryContinues)
            /\ Excess(pd.monthlyAmount, survInputs.spouse)
                   \in {pd.monthlyAmount, pd.spouseSurvival}
            /\ Excess(sd.monthlyAmount, survInputs.primary)
                   \in {sd.monthlyAmount, sd.primaryContinues}

\* --------------------------------------------------------- error handling
\* C24: no entry point raises an exception, a Single record with one
\* PersonInput included: every call of calculateLifetimeBenefit,
\* generateStrategies and calculateSurvivorBenefits ends by returning (the
\* schedule, comparison, refinance and PTC engines have no throwing step).
C24_NoEntryPointThrows ==
    /\ ssPc # "threw"
    /\ stratPc # "threw"
    /\ survPc # "threw"
    /\ singlePc # "threw"

\* ---------------------------------------------------- scenario list properties
\* C26: from the default scenario set, after any sequence of addScenario,
\* removeScenario and setBaseline exactly one scenario has isBaseline = true,
\* and calculateComparisonResults returns one result per scenario.
C26_ExactlyOneBaseline ==
    pointsPc = "page" =>
        /\ Cardinality({i \in 1..Len(scenarios) : scenarios[i].isBaseline}) = 1
        /\ Len(pointsResults) = Len(scenarios)

\* ------------------------------------------------ bi-weekly payoff property

\* C27 as stated: in bi-weekly mode, when the loop stops because the balance
\* has reached <= MINIMUM_BALANCE, the last entry of the returned schedule
\* reports a balance <= MINIMUM_BALANCE, whether the payoff falls on an even-
\* or an odd-numbered bi-weekly payment.
C27_BiWeeklyLastEntryPaidOff ==
    (Done /\ args.biWeekly /\ exit = "paid"
          /\ AboveMinimumBalance(args.loanAmount)) =>
        /\ Len(schedule) > 0
        /\ ~AboveMinimumBalance(schedule[Len(schedule)].balance)

\* ------------------------------------------- Single claimant independence

SingleReturned == singlePc = "returned"

\* The same call with another spouse record in the inputs.
WithSpouse(in, spouse) == [in EXCEPT !.spouse = spouse]

\* The amounts of the months that pay anything, the months apart from that
\* not counted: a month of amount 0 adds nothing to the total.
SameLifetime(a, b) == a.monthlyPrimary = b.monthlyPrimary /\ a.total = b.total

\* C28 as stated: for maritalStatus = Single the total and the primary's
\* benefit in each calendar month do not depend on the spouse record: inputs
\* that differ only in the spouse's PIA, birth date or claim date give the
\* same result, at any inflation rate.
C28_SingleIgnoresSpouse ==
    (SingleReturned /\ singleInputs.maritalStatus = "Single") =>
        \A spouse \in SpouseInputs :
            SameLifetime(inflatedLifetime(WithSpouse(singleInputs, spouse)),
                         singleResult)

\* ------------------------------------------------- annual bucket properties

AnnualEntries == 1..Len(annualData)

RECURSIVE SumOfAnnualTotals(_)
SumOfAnnualTotals(n) ==
    IF n = 0 THEN RInt(0) ELSE RAdd(SumOfAnnualTotals(n - 1), annualData[n].total)

\* The calendar years that contain a simulated month.
SimulatedYears == {monthlyData[i].year : i \in 1..Len(monthlyData)}

\* The simulated months of the calendar year.
MonthsOfYear(year) ==
    {monthlyData[i].date.ym : i \in {j \in 1..Len(monthlyData) : monthlyData[j].year = year}}

\* What the claimant is paid in the month: the part `claimant` of the loop's
\* monthly amounts.
MonthlyPart(claimant, ym) ==
    LET bases == monthlyBases(ssInputs, sim, [ym |-> ym, d |-> 1])
    IN  RMul(bases[claimant],
             inflationFactor(ssInputs.inflationRate, bases.monthsElapsed))

RECURSIVE SumOfParts(_, _)
SumOfParts(claimant, months) ==
    IF months = {} THEN RInt(0)
    ELSE LET ym == CHOOSE m \in months : \A other \in months : m <= other
         IN  RAdd(MonthlyPart(claimant, ym), SumOfParts(claimant, months \ {ym}))

\* C29: for every result, total is the sum of the monthlyData amounts and the
\* sum of the annualData totals; annualData has exactly one entry for each
\* calendar year that contains a simulated month, the years strictly
\* increasing; each entry's total is primaryBenefit + spouseBenefit +
\* spousalAddOn, each of them the sum of that claimant's monthly amounts in
\* the year.
C29_AnnualBucketsAddUp ==
    LifeReturned =>
        /\ total = SumOfAmounts(monthlyData, 1, Len(monthlyData))
        /\ total = SumOfAnnualTotals(Len(annualData))
        /\ {annualData[i].year : i \in AnnualEntries} = SimulatedYears
        /\ \A i \in AnnualEntries : i > 1 => annualData[i - 1].year < annualData[i].year
        /\ \A i \in AnnualEntries :
               LET entry == annualData[i]
                   months == MonthsOfYear(entry.year)
               IN  /\ entry.total =
                          RAdd(RAdd(entry.primaryBenefit, entry.spouseBenefit),
                               entry.spousalAddOn)
                   /\ entry.primaryBenefit = SumOfParts("primary", months)
                   /\ entry.spouseBenefit = SumOfParts("spouseOwn", months)
                   /\ entry.spousalAddOn = SumOfParts("spouseSpousal", months)

\* A result of a couple whose first calendar year is simulated in part and
\* whose last entry, the one added after the loop, pays all three amounts.
C29_Witness ==
    /\ LifeReturned
    /\ Len(annualData) > 1
    /\ Cardinality(MonthsOfYear(annualData[1].year)) < 12
    /\ LET last == annualData[Len(annualData)]
       IN  /\ last.primaryBenefit # RInt(0)
           /\ last.spouseBenefit # RInt(0)
           /\ last.spousalAddOn # RInt(0)

\* ---------------------------------------------------- ineligible results

\* C30 as stated: whenever calculatePTC returns isEligible = false (invalid
\* input, income below 100% of FPL, or income at or above 400% of FPL under
\* the cliff rules), totalAllowedPTC and monthlyPTC are both 0.
C30_IneligibleMeansNoCredit ==
    (PtcReturned /\ ~ptcResults.isEligible) => NoCredit

============================================================================
